---------------------------- MODULE Spec2Model ----------------------------
(***************************************************************************)
(* BSL symbol indexing: the in-memory Symbol Cache (solidlsp/bsl_cache.py) *)
(* and the incremental indexer of the BSL language server                  *)
(* (solidlsp/language_servers/bsl_language_server.py).                     *)
(*                                                                         *)
(* Python lists are sequences; a list position is kept 0-based, as the     *)
(* code stores it, so position i of a list s is s[i + 1].  A Python dict   *)
(* is a function whose DOMAIN is the set of its keys.                      *)
(***************************************************************************)
EXTENDS Integers, Sequences, FiniteSets, TLC

VARIABLES
    cache,      \* BSLCache: methods, module_vars, calls, modules and the three indexes
    last,       \* the last operation applied: its name, its file, the cache before it, its argument
    fs,         \* the file system: the content of every file
    docsyms,    \* _document_symbols_cache, the projection: file -> (hash, symbols)
    rawsyms,    \* _raw_document_symbols_cache: file -> hash
    rw,         \* the threads of the fine-grained insert: each one's position and locals
    converted,  \* _converted_files
    fcc,        \* _file_content_cache: file -> content
    srv,        \* the indexer's coordinating thread: its position and locals
    tasks,      \* the futures of the running batch: one _parse_file_local call each
    results,    \* the result map of the batch: file -> outcome
    yielded,    \* the futures as_completed has handed out
    processed,  \* processed_files of the batch loop
    hist,       \* per file, what was inserted since its last removal: the contents
                \* of its last two inserts (indexer), its call inputs (cache alone)
    before,     \* the cache and the projection when the batch was submitted
    used        \* operations started and file changes made so far

cacheVars == <<cache, last>>

-----------------------------------------------------------------------------
(* Bounds of the model *)

\* most items (method entries, variables, call records, module records) a
\* cache of the sequential cache specification holds
MaxItems == 3

\* most items one batched insert carries
MaxBatchLen == 2

\* most paths one indexing batch is given
MaxTasks == 2

\* most indexer operations (full sync passes, indexFiles calls) in one run
MaxOps == 2

\* most changes the environment makes to the files in one run
MaxEdits == 1

\* most segments of a path given to _get_module_for_path
MaxSegments == 5

\* a source text has at most MaxLines lines
MaxLines == 4

\* _extract_description_before looks at most LookBack lines back
LookBack == 20

\* the batch loop calls the save callback after every SaveEvery-th file (200
\* in the code, scaled down to the batches of the model)
SaveEvery == 1

-----------------------------------------------------------------------------
(* Data *)

Files == {"f1", "f2"}

\* str.lower() on the names the model uses
Lower(s) ==
    CASE s = "Calc" -> "calc"
      [] s = "Run"  -> "run"
      [] s = "Mod"  -> "mod"
      [] s = "CALC" -> "calc"
      [] s = "MOD"  -> "mod"
      [] s = "Esli" -> "esli"
      [] OTHER      -> s

\* BSLCallPosition
CallPos(call, line, character) ==
    [call |-> call, line |-> line, character |-> character]

\* BSLMethod (params and description carry no behaviour of the cache)
Method(name, line, endline, isproc, is_export, context, calls_position) ==
    [name |-> name, line |-> line, endline |-> endline, isproc |-> isproc,
     is_export |-> is_export, context |-> context,
     calls_position |-> calls_position]

\* BSLModuleVar
ModuleVar(name, is_export) == [name |-> name, is_export |-> is_export]

\* BSLModuleInfo
ModuleInfo(filename, module) == [filename |-> filename, module |-> module]

-----------------------------------------------------------------------------
(* Python dict and list helpers *)

EmptyDict == [k \in {} |-> <<>>]

Put(d, k, v) == [x \in (DOMAIN d) \cup {k} |-> IF x = k THEN v ELSE d[x]]

Drop(d, k) == [x \in (DOMAIN d) \ {k} |-> d[x]]

Get(d, k, default) == IF k \in DOMAIN d THEN d[k] ELSE default

\* list.pop(i), i 0-based
PopAt(s, i) == SubSeq(s, 1, i) \o SubSeq(s, i + 2, Len(s))

\* set(list)
SetOf(seq) == { seq[i] : i \in 1..Len(seq) }

Count(s, x) == Cardinality({i \in 1..Len(s) : s[i] = x})

RECURSIVE SumLens(_, _)
SumLens(d, keys) ==
    IF keys = {} THEN 0
    ELSE LET k == CHOOSE x \in keys : TRUE
         IN Len(d[k]) + SumLens(d, keys \ {k})

-----------------------------------------------------------------------------
(* BSLCache: the operations as functions of the cache value *)

\* BSLCache.__init__
BSLCache ==
    [methods |-> <<>>, module_vars |-> EmptyDict, calls |-> EmptyDict,
     modules |-> <<>>, name_index |-> EmptyDict, module_index |-> EmptyDict,
     export_index |-> <<>>]

\* "if key not in index: index[key] = []; index[key].append(i)"
IndexAppend(ix, key, i) == Put(ix, key, Append(Get(ix, key, <<>>), i))

\* the index updates for the entry at position idx of c.methods
IndexEntry(c, idx) ==
    LET mi == c.methods[idx + 1]
    IN [c EXCEPT
          !.name_index = IndexAppend(@, Lower(mi.method.name), idx),
          !.module_index = IF mi.module # ""
                           THEN IndexAppend(@, Lower(mi.module), idx)
                           ELSE @,
          !.export_index = IF mi.method.is_export THEN Append(@, idx) ELSE @]

add_method(c, method, filename, module) ==
    LET index == Len(c.methods)
        info  == [method |-> method, filename |-> filename, module |-> module]
    IN IndexEntry([c EXCEPT !.methods = Append(@, info)], index)

add_module_var(c, var, filename) ==
    [c EXCEPT !.module_vars = Put(@, filename, Append(Get(@, filename, <<>>), var))]

add_call(c, call, filename, method_name, module) ==
    LET call_info == [filename |-> filename, call |-> call.call,
                      line |-> call.line, character |-> call.character,
                      method_name |-> method_name, module |-> module]
    IN [c EXCEPT !.calls = Put(@, call.call, Append(Get(@, call.call, <<>>), call_info))]

\* a slip the batched insert could make: the list is applied back to front
RECURSIVE add_methods_batch_Reversed(_, _)
add_methods_batch_Reversed(c, methods_data) ==
    IF methods_data = <<>> THEN c
    ELSE LET n == Len(methods_data)
         IN add_methods_batch_Reversed(
                add_method(c, methods_data[n][1], methods_data[n][2],
                           methods_data[n][3]),
                SubSeq(methods_data, 1, n - 1))

\* methods_data: a list of <<method, filename, module>>
RECURSIVE add_methods_batch(_, _)
add_methods_batch(c, methods_data) ==
    IF methods_data = <<>> THEN c
    ELSE add_methods_batch(
             add_method(c, Head(methods_data)[1], Head(methods_data)[2],
                        Head(methods_data)[3]),
             Tail(methods_data))

\* vars_data: a list of <<var, filename>>
RECURSIVE add_module_vars_batch(_, _)
add_module_vars_batch(c, vars_data) ==
    IF vars_data = <<>> THEN c
    ELSE add_module_vars_batch(
             add_module_var(c, Head(vars_data)[1], Head(vars_data)[2]),
             Tail(vars_data))

\* calls_data: a list of <<call, filename, method_name, module>>
RECURSIVE add_calls_batch(_, _)
add_calls_batch(c, calls_data) ==
    IF calls_data = <<>> THEN c
    ELSE add_calls_batch(
             add_call(c, Head(calls_data)[1], Head(calls_data)[2],
                      Head(calls_data)[3], Head(calls_data)[4]),
             Tail(calls_data))

add_module(c, module_info) == [c EXCEPT !.modules = Append(@, module_info)]

clear(c) == BSLCache

\* a slip _rebuild_indices could make: the name and module keys are not
\* lowercased as add_method lowercases them
rebuild_indices_NoLower(c) ==
    LET pos(P(_)) == SelectSeq([i \in 1..Len(c.methods) |-> i - 1],
                               LAMBDA i : P(c.methods[i + 1]))
        names == { c.methods[i].method.name : i \in 1..Len(c.methods) }
        mods == { c.methods[i].module : i \in 1..Len(c.methods) } \ {""}
    IN [c EXCEPT
          !.name_index = [n \in names |-> pos(LAMBDA e : e.method.name = n)],
          !.module_index = [m \in mods |-> pos(LAMBDA e : e.module = m)],
          !.export_index = pos(LAMBDA e : e.method.is_export)]

\* the loop of _rebuild_indices over enumerate(self.methods), from position idx
RECURSIVE RebuildFrom(_, _)
RebuildFrom(c, idx) ==
    IF idx >= Len(c.methods) THEN c
    ELSE RebuildFrom(IndexEntry(c, idx), idx + 1)

rebuild_indices(c) ==
    RebuildFrom([c EXCEPT !.name_index = EmptyDict,
                          !.module_index = EmptyDict,
                          !.export_index = <<>>], 0)

\* a slip the collecting loop could make: the position below a match is
\* stepped over
RECURSIVE indices_to_remove_SkipNext(_, _, _)
indices_to_remove_SkipNext(ms, filename, idx) ==
    IF idx < 0 THEN <<>>
    ELSE IF ms[idx + 1].filename = filename
         THEN <<idx>> \o indices_to_remove_SkipNext(ms, filename, idx - 2)
         ELSE indices_to_remove_SkipNext(ms, filename, idx - 1)

\* the positions of filename's entries, from the last position down to 0
RECURSIVE indices_to_remove(_, _, _)
indices_to_remove(ms, filename, idx) ==
    IF idx < 0 THEN <<>>
    ELSE (IF ms[idx + 1].filename = filename THEN <<idx>> ELSE <<>>)
         \o indices_to_remove(ms, filename, idx - 1)

\* a slip the pop loop could make: it stops after the first pop
PopAll_FirstOnly(ms, idxs) ==
    IF idxs = <<>> THEN ms ELSE PopAt(ms, Head(idxs))

\* "for idx in indices_to_remove: self.methods.pop(idx)"
RECURSIVE PopAll(_, _)
PopAll(ms, idxs) ==
    IF idxs = <<>> THEN ms ELSE PopAll(PopAt(ms, Head(idxs)), Tail(idxs))

\* a slip step 3 could make: a bucket that holds a record of filename is
\* dropped whole
RemoveCalls_DropBucket(calls, filename) ==
    [k \in {x \in DOMAIN calls :
                \A j \in 1..Len(calls[x]) : calls[x][j].filename # filename}
        |-> calls[k]]

\* a slip step 3 could make: a bucket left empty keeps its key
RemoveCalls_KeepEmpty(calls, filename) ==
    [k \in DOMAIN calls |-> SelectSeq(calls[k], LAMBDA ci : ci.filename # filename)]

\* step 3 of remove_file_data: every bucket loses filename's records, and a
\* bucket left empty loses its key
RemoveCalls(calls, filename) ==
    LET filtered(k) == SelectSeq(calls[k], LAMBDA ci : ci.filename # filename)
    IN [k \in {x \in DOMAIN calls : filtered(x) # <<>>} |-> filtered(k)]

\* a slip remove_file_data could make: the entries are popped and the indexes
\* are left as they were
remove_file_data_NoRebuild(c, filename) ==
    [c EXCEPT
       !.methods = PopAll(@, indices_to_remove(@, filename, Len(@) - 1)),
       !.module_vars = Drop(@, filename),
       !.calls = RemoveCalls(@, filename),
       !.modules = SelectSeq(@, LAMBDA m : m.filename # filename)]

remove_file_data(c, filename) ==
    LET popped == [c EXCEPT !.methods =
                       PopAll(@, indices_to_remove(@, filename, Len(@) - 1))]
        rebuilt == rebuild_indices(popped)
    IN [rebuilt EXCEPT
          !.module_vars = Drop(@, filename),
          !.calls = RemoveCalls(@, filename),
          !.modules = SelectSeq(@, LAMBDA m : m.filename # filename)]

\* find_methods with no criteria: a copy of the method list
find_methods_all(c) == c.methods

\* re.compile(pattern, re.IGNORECASE).search(s), on the patterns and the
\* strings the model uses: "AL" and "^R" are found in one name each, "mo" in
\* the module name, and ".*" in every string, the empty one included
search(pattern, s) ==
    CASE pattern = ".*" -> TRUE
      [] pattern = "AL" -> Lower(s) = "calc"
      [] pattern = "^R" -> Lower(s) = "run"
      [] pattern = "mo" -> Lower(s) = "mod"
      [] OTHER          -> FALSE

\* a name or module criterion: {'$regex': v} or the plain value v
Regex(v) == [regex |-> TRUE, v |-> v]

Exact(v) == [regex |-> FALSE, v |-> v]

\* candidate_indices: None, or a set of positions
NoCandidates == [some |-> FALSE, set |-> {}]

Candidates(S) == [some |-> TRUE, set |-> S]

\* range(len(self.methods))
AllPositions(c) == 0..(Len(c.methods) - 1)

\* the positions an index holds under the keys a criterion selects
criterion_indices(ix, crit) ==
    IF crit.regex
    THEN UNION { SetOf(ix[k]) : k \in { x \in DOMAIN ix : search(crit.v, x) } }
    ELSE SetOf(Get(ix, Lower(crit.v), <<>>))

\* "candidate_indices = s if candidate_indices is None else candidate_indices & s"
Narrow(cand, S) ==
    IF cand.some THEN Candidates(cand.set \cap S) ELSE Candidates(S)

\* the filter by name (lines 176-190)
filter_name(c, query, cand) ==
    IF "name" \in DOMAIN query
    THEN Narrow(cand, criterion_indices(c.name_index, query.name))
    ELSE cand

\* the filter by module (lines 193-213)
filter_module(c, query, cand) ==
    IF "module" \in DOMAIN query
    THEN Narrow(cand, criterion_indices(c.module_index, query.module))
    ELSE cand

\* a slip the export filter could make: only the spelling is_export is read
filter_export_OneSpelling(c, query, cand) ==
    IF "is_export" \in DOMAIN query
    THEN LET export_indices == SetOf(c.export_index)
         IN IF cand.some
            THEN Candidates(IF query.is_export THEN cand.set \cap export_indices
                            ELSE cand.set \ export_indices)
            ELSE Candidates(IF query.is_export THEN export_indices
                            ELSE AllPositions(c) \ export_indices)
    ELSE cand

\* the filter by export flag, under either spelling of the key
filter_export(c, query, cand) ==
    IF "is_export" \in DOMAIN query \/ "isExport" \in DOMAIN query
    THEN LET is_export == IF "is_export" \in DOMAIN query
                          THEN query.is_export ELSE query.isExport
             export_indices == SetOf(c.export_index)
         IN IF cand.some
            THEN Candidates(IF is_export THEN cand.set \cap export_indices
                            ELSE cand.set \ export_indices)
            ELSE Candidates(IF is_export THEN export_indices
                            ELSE AllPositions(c) \ export_indices)
    ELSE cand

\* the candidate positions after the three indexed filters
candidate_indices(c, query) ==
    LET cand == filter_export(c, query,
                    filter_module(c, query, filter_name(c, query, NoCandidates)))
    IN IF cand.some THEN cand.set ELSE AllPositions(c)

\* the positions the final loop keeps
kept_indices(c, query) ==
    { idx \in candidate_indices(c, query) :
        /\ idx < Len(c.methods)
        /\ "context" \in DOMAIN query =>
              c.methods[idx + 1].method.context = query.context
        /\ "isproc" \in DOMAIN query =>
              c.methods[idx + 1].method.isproc = query.isproc }

\* the positions of a set, lowest first
RECURSIVE Ascending(_)
Ascending(S) ==
    IF S = {} THEN <<>>
    ELSE LET lo == CHOOSE x \in S : \A y \in S : x <= y
         IN <<lo>> \o Ascending(S \ {lo})

\* find_methods: the entries at the kept positions (the loop walks a set of
\* small integers, listed here lowest first)
find_methods(c, query) ==
    IF DOMAIN query = {} THEN c.methods
    ELSE LET idxs == Ascending(kept_indices(c, query))
         IN [i \in 1..Len(idxs) |-> c.methods[idxs[i] + 1]]

\* a slip find_calls could make: the callee name is looked up without regard
\* to case
find_calls_AnyCase(c, call_name) ==
    IF \E k \in DOMAIN c.calls : Lower(k) = Lower(call_name)
    THEN c.calls[CHOOSE k \in DOMAIN c.calls : Lower(k) = Lower(call_name)]
    ELSE <<>>

\* find_calls
find_calls(c, call_name) == Get(c.calls, call_name, <<>>)

get_stats(c) ==
    [methods |-> Len(c.methods),
     exported_methods |-> Len(c.export_index),
     module_vars |-> SumLens(c.module_vars, DOMAIN c.module_vars),
     calls |-> SumLens(c.calls, DOMAIN c.calls),
     unique_calls |-> Cardinality(DOMAIN c.calls),
     modules |-> Len(c.modules)]

-----------------------------------------------------------------------------
(* Files, their content and the parser's results *)

\* A file's content is its list of lines (source.split('\n') after the line
\* endings are normalised); no file is there when the list is empty.  The
\* keywords stand for the language's own: Procedure/EndProcedure for
\* Процедура/КонецПроцедуры, Function/EndFunction for Функция/КонецФункции,
\* Var for Перем, Export for Экспорт.
NoFile == <<>>

\* a file of white space only: "not source.strip()"
SrcBlank == <<"  ">>

SrcA == <<"Procedure Calc() Export", "  Run();", "EndProcedure">>

SrcB == <<"Var V;", "Function Run()", "EndFunction", "Calc();">>

Sources == {SrcBlank, SrcA, SrcB}

Contents == {NoFile} \cup Sources

\* hashlib.md5(source.encode("utf-8")).hexdigest(): a digest per content
md5(src) ==
    CASE src = SrcA     -> "md5_A"
      [] src = SrcB     -> "md5_B"
      [] src = SrcBlank -> "md5_blank"
      [] OTHER          -> "md5_none"

\* BSLParseResult
ParseResult(methods, global_calls, module_vars) ==
    [methods |-> methods, global_calls |-> global_calls,
     module_vars |-> module_vars]

\* BSLParser.parse on the sources of the model
parse(src) ==
    CASE src = SrcA ->
           ParseResult(
               <<Method("Calc", 0, 2, TRUE, TRUE, "", <<CallPos("Run", 1, 2)>>)>>,
               <<>>, <<>>)
      [] src = SrcB ->
           ParseResult(
               <<Method("Run", 1, 2, FALSE, FALSE, "", <<>>)>>,
               <<CallPos("Calc", 3, 0)>>,
               <<ModuleVar("V", FALSE)>>)
      [] OTHER -> ParseResult(<<>>, <<>>, <<>>)

\* the path of a file below the project root, as its segments
FilePath(f) ==
    IF f = "f1" THEN <<"CommonModules", "M1", "Ext", "Module.bsl">>
    ELSE <<"Documents", "D1", "Ext", "Module.bsl">>

\* type_mapping of _get_module_for_path (the Russian names transliterated)
type_mapping ==
    [t \in {"Documents", "Catalogs", "InformationRegisters",
            "AccumulationRegisters", "Enums", "Constants", "CommonCommands",
            "WebServices", "BusinessProcesses", "Tasks"} |->
        CASE t = "Documents" -> "Dokumenty"
          [] t = "Catalogs" -> "Spravochniki"
          [] t = "InformationRegisters" -> "RegistrySvedenij"
          [] t = "AccumulationRegisters" -> "RegistryNakopleniya"
          [] t = "Enums" -> "Perechisleniya"
          [] t = "Constants" -> "Konstanty"
          [] t = "CommonCommands" -> "ObshchieKomandy"
          [] t = "WebServices" -> "VebServisy"
          [] t = "BusinessProcesses" -> "BiznesProcessy"
          [] OTHER -> "Zadachi"]

\* parent_type.startswith("CommonModules") or .startswith("ОбщиеМодули"):
\* the segments of the model that start with one of the two names
IsCommonModules(seg) ==
    seg \in {"CommonModules", "ObshchieModuli", "CommonModulesOld"}

\* a slip _get_module_for_path could make: paths of exactly four segments
\* are taken for too short
get_module_for_path_TooShort(parts) ==
    LET hierarchy == Len(parts)
    IN IF hierarchy > 4
       THEN LET parent_type == parts[hierarchy - 4 + 1]
                name == parts[hierarchy - 3 + 1]
            IN IF IsCommonModules(parent_type)
               THEN <<name>>
               ELSE <<Get(type_mapping, parent_type, parent_type), name>>
       ELSE <<>>

\* _get_module_for_path on the segments of the relative path; the result
\* "<type>.<name>" is kept as the pair of its two parts
get_module_for_path(parts) ==
    LET hierarchy == Len(parts)
    IN IF hierarchy > 3
       THEN LET parent_type == parts[hierarchy - 4 + 1]
                name == parts[hierarchy - 3 + 1]
            IN IF IsCommonModules(parent_type)
               THEN <<name>>
               ELSE <<Get(type_mapping, parent_type, parent_type), name>>
       ELSE <<>>

\* the module string of a file of the model
ModuleOf(f) ==
    LET m == get_module_for_path(FilePath(f))
    IN CASE m = <<"M1">> -> "M1"
         [] m = <<"Dokumenty", "D1">> -> "Dokumenty.D1"
         [] OTHER -> ""

\* one symbol of the projection: kind 6 for a procedure and 12 for a
\* function, the end line cut to the content's last line, and the body the
\* lines from the start line to the end line (_extract_method_body)
Symbol(lines, method) ==
    LET n == Len(lines)
        end_line == IF method.endline < n
                    THEN (IF method.endline < n - 1 THEN method.endline ELSE n - 1)
                    ELSE n - 1
    IN [name |-> method.name,
        kind |-> IF method.isproc THEN 6 ELSE 12,
        line |-> method.line,
        end_line |-> end_line,
        is_export |-> method.is_export,
        context |-> method.context,
        body |-> IF method.line > end_line \/ method.line >= n THEN <<>>
                 ELSE SubSeq(lines, method.line + 1, end_line + 1)]

\* DocumentSymbols of a list of methods over a content
DocumentSymbols(lines, methods) ==
    [i \in 1..Len(methods) |-> Symbol(lines, methods[i])]

\* the cache's method entries of one file, in list order
FileMethods(c, f) == SelectSeq(c.methods, LAMBDA mi : mi.filename = f)

\* the (method, filename, module) list _parse_file_local passes to
\* add_methods_batch
methods_data(f, pr) ==
    [i \in 1..Len(pr.methods) |-> <<pr.methods[i], f, ModuleOf(f)>>]

vars_data(f, pr) ==
    [i \in 1..Len(pr.module_vars) |-> <<pr.module_vars[i], f>>]

global_calls_data(f, pr) ==
    [i \in 1..Len(pr.global_calls) |->
        <<pr.global_calls[i], f, "GlobalModuleText", ModuleOf(f)>>]

\* "for method in methods: for call in method.calls_position"
RECURSIVE method_calls(_, _, _)
method_calls(f, ms, i) ==
    IF i > Len(ms) THEN <<>>
    ELSE [j \in 1..Len(ms[i].calls_position) |->
             <<ms[i].calls_position[j], f, ms[i].name, ModuleOf(f)>>]
         \o method_calls(f, ms, i + 1)

\* the call records of one file the cache holds, over all buckets
FileCalls(c, f) ==
    UNION { { c.calls[k][i] : i \in { j \in 1..Len(c.calls[k]) :
                                        c.calls[k][j].filename = f } } :
            k \in DOMAIN c.calls }

-----------------------------------------------------------------------------
(* The sequential cache specification: one caller applies the mutating     *)
(* operations one at a time, with inputs from small sets.                  *)

\* method inputs: two names that differ only by case, exported and not
CacheMethods ==
    { Method("Calc", 0, 2, TRUE, TRUE, "", <<>>),
      Method("calc", 4, 6, FALSE, FALSE, "", <<>>),
      Method("Run", 8, 9, TRUE, FALSE, "", <<>>) }

\* <<method, filename, module>> inputs: an empty module, two modules that
\* differ only by case, and a method with an execution context
CacheEntries ==
    { <<m, "f1", "Mod">> : m \in CacheMethods }
      \cup { <<Method("Calc", 0, 2, TRUE, TRUE, "", <<>>), "f2", "mod">>,
             <<Method("Run", 8, 9, TRUE, FALSE, "Server", <<>>), "f2", "">> }

CacheVarInputs ==
    { <<ModuleVar("V", FALSE), "f1">>, <<ModuleVar("W", TRUE), "f2">> }

CacheCallInputs ==
    { <<CallPos("Run", 1, 2), "f1", "Calc", "Mod">>,
      <<CallPos("Run", 5, 0), "f2", "GlobalModuleText", "">>,
      <<CallPos("Calc", 3, 0), "f2", "Run", "">> }

CacheModuleInputs == { ModuleInfo("f1", "Mod"), ModuleInfo("f2", "mod") }

\* the lists of 1..MaxBatchLen elements of S
Lists(S) == UNION { [1..n -> S] : n \in 1..MaxBatchLen }

Items(c) ==
    Len(c.methods) + SumLens(c.module_vars, DOMAIN c.module_vars)
    + SumLens(c.calls, DOMAIN c.calls) + Len(c.modules)

Did(op, file) == last' = [op |-> op, file |-> file, pre |-> cache, arg |-> <<>>]

\* a batched insert, with the list it was given
DidBatch(op, items) == last' = [op |-> op, file |-> "", pre |-> cache, arg |-> items]

CacheInit ==
    /\ cache = BSLCache
    /\ last = [op |-> "init", file |-> "", pre |-> BSLCache, arg |-> <<>>]

AddMethod ==
    \E e \in CacheEntries :
        /\ Items(cache) < MaxItems
        /\ cache' = add_method(cache, e[1], e[2], e[3])
        /\ Did("add_method", e[2])

AddModuleVar ==
    \E v \in CacheVarInputs :
        /\ Items(cache) < MaxItems
        /\ cache' = add_module_var(cache, v[1], v[2])
        /\ Did("add_module_var", v[2])

AddCall ==
    \E k \in CacheCallInputs :
        /\ Items(cache) < MaxItems
        /\ cache' = add_call(cache, k[1], k[2], k[3], k[4])
        /\ last' = [op |-> "add_call", file |-> k[2], pre |-> cache, arg |-> <<k>>]

AddMethodsBatch ==
    \E es \in Lists(CacheEntries) :
        /\ Items(cache) + Len(es) <= MaxItems
        /\ cache' = add_methods_batch(cache, es)
        /\ DidBatch("add_methods_batch", es)

AddModuleVarsBatch ==
    \E vs \in Lists(CacheVarInputs) :
        /\ Items(cache) + Len(vs) <= MaxItems
        /\ cache' = add_module_vars_batch(cache, vs)
        /\ DidBatch("add_module_vars_batch", vs)

AddCallsBatch ==
    \E ks \in Lists(CacheCallInputs) :
        /\ Items(cache) + Len(ks) <= MaxItems
        /\ cache' = add_calls_batch(cache, ks)
        /\ DidBatch("add_calls_batch", ks)

AddModule ==
    \E mi \in CacheModuleInputs :
        /\ Items(cache) < MaxItems
        /\ cache' = add_module(cache, mi)
        /\ Did("add_module", mi.filename)

RemoveFileData ==
    \E f \in Files :
        /\ cache' = remove_file_data(cache, f)
        /\ Did("remove_file_data", f)

Clear ==
    /\ cache' = clear(cache)
    /\ Did("clear", "")

vars == <<cache, last, fs, docsyms, rawsyms, rw, converted, fcc, srv, tasks,
          results, yielded, processed, hist, before, used>>

idxOnly == <<converted, fcc, srv, tasks, results, yielded, processed, hist,
             before, used>>

\* the indexer's variables at rest
AtRest ==
    /\ converted = {}
    /\ fcc = EmptyDict
    /\ srv = [pc |-> "idle", kind |-> "none", all_files |-> <<>>, paths |-> <<>>,
              callback |-> "none", saves |-> <<>>]
    /\ tasks = <<>>
    /\ results = EmptyDict
    /\ yielded = {}
    /\ processed = {}
    /\ before = [cache |-> BSLCache, docsyms |-> EmptyDict]
    /\ used = [ops |-> 0, edits |-> 0]

NoIndexer ==
    /\ AtRest
    /\ hist = [f \in Files |-> <<NoFile, NoFile>>]

-----------------------------------------------------------------------------
(* Concurrent inserts, one bytecode-level step at a time.                  *)
(* _index_files_with_local_parser submits _parse_file_local once per file  *)
(* to a thread pool; the threads share self._local_cache and no lock is    *)
(* taken around its mutation, so the statements of add_method and add_call *)
(* of two threads interleave.                                              *)

RaceWorkers == {1, 2}

RaceFile(w) == IF w = 1 THEN "f1" ELSE "f2"

\* the call list of a file: the global calls, then the calls inside methods
calls_data(f, pr) == global_calls_data(f, pr) \o method_calls(f, pr.methods, 1)

Goto(r, pc, i) == [r EXCEPT !.pc = pc, !.i = i]

ToCalls(r) ==
    IF calls_data(r.file, parse(r.src)) # <<>>
    THEN Goto(r, "c_chk", 1) ELSE Goto(r, "convert", 0)

ToVars(r) ==
    IF parse(r.src).module_vars # <<>> THEN Goto(r, "v_add", 1) ELSE ToCalls(r)

ToMethods(r) ==
    IF parse(r.src).methods # <<>> THEN Goto(r, "m_len", 1) ELSE ToVars(r)

MethodDone(r) ==
    IF r.i < Len(parse(r.src).methods) THEN Goto(r, "m_len", r.i + 1) ELSE ToVars(r)

ToExport(r) ==
    IF parse(r.src).methods[r.i].is_export THEN Goto(r, "x_app", r.i) ELSE MethodDone(r)

ToModule(r) ==
    IF ModuleOf(r.file) # "" THEN Goto(r, "d_chk", r.i) ELSE ToExport(r)

RaceInit ==
    /\ NoIndexer
    /\ cache = BSLCache
    /\ last = [op |-> "init", file |-> "", pre |-> BSLCache, arg |-> <<>>]
    /\ fs \in [Files -> {SrcA, SrcB}]
    /\ docsyms = EmptyDict
    /\ rawsyms = EmptyDict
    /\ rw = [w \in RaceWorkers |->
               [file |-> RaceFile(w), pc |-> "start", src |-> NoFile, i |-> 0,
                index |-> 0, absent |-> FALSE]]

RaceFrame == UNCHANGED <<last, fs, idxOnly>>

\* the read, the hash check, the empty check and the parse (thread-local)
RStart(w) ==
    /\ rw[w].pc = "start"
    /\ LET f == rw[w].file
           src == fs[f]
           r == [rw[w] EXCEPT !.src = src]
       IN rw' = [rw EXCEPT ![w] =
                    IF \/ src = NoFile
                       \/ (f \in DOMAIN docsyms /\ docsyms[f].hash = md5(src))
                       \/ src = SrcBlank
                    THEN Goto(r, "done", 0)
                    ELSE ToMethods(r)]
    /\ UNCHANGED <<cache, docsyms, rawsyms>>
    /\ RaceFrame

\* add_method: index = len(self.methods)
RMethodLen(w) ==
    /\ rw[w].pc = "m_len"
    /\ rw' = [rw EXCEPT ![w].index = Len(cache.methods), ![w].pc = "m_app"]
    /\ UNCHANGED <<cache, docsyms, rawsyms>>
    /\ RaceFrame

\* add_method: self.methods.append(method_info)
RMethodAppend(w) ==
    /\ rw[w].pc = "m_app"
    /\ LET e == methods_data(rw[w].file, parse(rw[w].src))[rw[w].i]
       IN cache' = [cache EXCEPT !.methods =
                       Append(@, [method |-> e[1], filename |-> e[2], module |-> e[3]])]
    /\ rw' = [rw EXCEPT ![w].pc = "n_chk"]
    /\ UNCHANGED <<docsyms, rawsyms>>
    /\ RaceFrame

\* add_method: if method_name_lower not in self._method_name_index
RNameCheck(w) ==
    /\ rw[w].pc = "n_chk"
    /\ LET key == Lower(parse(rw[w].src).methods[rw[w].i].name)
           absent == key \notin DOMAIN cache.name_index
       IN rw' = [rw EXCEPT ![w].absent = absent,
                           ![w].pc = IF absent THEN "n_new" ELSE "n_app"]
    /\ UNCHANGED <<cache, docsyms, rawsyms>>
    /\ RaceFrame

\* add_method: self._method_name_index[method_name_lower] = []
RNameNew(w) ==
    /\ rw[w].pc = "n_new"
    /\ LET key == Lower(parse(rw[w].src).methods[rw[w].i].name)
       IN cache' = [cache EXCEPT !.name_index = Put(@, key, <<>>)]
    /\ rw' = [rw EXCEPT ![w].pc = "n_app"]
    /\ UNCHANGED <<docsyms, rawsyms>>
    /\ RaceFrame

\* add_method: self._method_name_index[method_name_lower].append(index)
RNameAppend(w) ==
    /\ rw[w].pc = "n_app"
    /\ LET key == Lower(parse(rw[w].src).methods[rw[w].i].name)
       IN cache' = [cache EXCEPT !.name_index = IndexAppend(@, key, rw[w].index)]
    /\ rw' = [rw EXCEPT ![w] = ToModule(rw[w])]
    /\ UNCHANGED <<docsyms, rawsyms>>
    /\ RaceFrame

\* add_method: if module_lower not in self._method_module_index
RModCheck(w) ==
    /\ rw[w].pc = "d_chk"
    /\ LET key == Lower(ModuleOf(rw[w].file))
           absent == key \notin DOMAIN cache.module_index
       IN rw' = [rw EXCEPT ![w].absent = absent,
                           ![w].pc = IF absent THEN "d_new" ELSE "d_app"]
    /\ UNCHANGED <<cache, docsyms, rawsyms>>
    /\ RaceFrame

\* add_method: self._method_module_index[module_lower] = []
RModNew(w) ==
    /\ rw[w].pc = "d_new"
    /\ cache' = [cache EXCEPT !.module_index = Put(@, Lower(ModuleOf(rw[w].file)), <<>>)]
    /\ rw' = [rw EXCEPT ![w].pc = "d_app"]
    /\ UNCHANGED <<docsyms, rawsyms>>
    /\ RaceFrame

\* add_method: self._method_module_index[module_lower].append(index)
RModAppend(w) ==
    /\ rw[w].pc = "d_app"
    /\ cache' = [cache EXCEPT !.module_index =
                    IndexAppend(@, Lower(ModuleOf(rw[w].file)), rw[w].index)]
    /\ rw' = [rw EXCEPT ![w] = ToExport(rw[w])]
    /\ UNCHANGED <<docsyms, rawsyms>>
    /\ RaceFrame

\* add_method: self._method_export_index.append(index)
RExportAppend(w) ==
    /\ rw[w].pc = "x_app"
    /\ cache' = [cache EXCEPT !.export_index = Append(@, rw[w].index)]
    /\ rw' = [rw EXCEPT ![w] = MethodDone(rw[w])]
    /\ UNCHANGED <<docsyms, rawsyms>>
    /\ RaceFrame

\* add_module_var: the key is the thread's own file
RVarAdd(w) ==
    /\ rw[w].pc = "v_add"
    /\ LET vs == vars_data(rw[w].file, parse(rw[w].src))
       IN /\ cache' = add_module_var(cache, vs[rw[w].i][1], vs[rw[w].i][2])
          /\ rw' = [rw EXCEPT ![w] =
                       IF rw[w].i < Len(vs) THEN Goto(rw[w], "v_add", rw[w].i + 1)
                       ELSE ToCalls(rw[w])]
    /\ UNCHANGED <<docsyms, rawsyms>>
    /\ RaceFrame

\* add_call: if call_name not in self.calls
RCallCheck(w) ==
    /\ rw[w].pc = "c_chk"
    /\ LET k == calls_data(rw[w].file, parse(rw[w].src))[rw[w].i]
           absent == k[1].call \notin DOMAIN cache.calls
       IN rw' = [rw EXCEPT ![w].absent = absent,
                           ![w].pc = IF absent THEN "c_new" ELSE "c_app"]
    /\ UNCHANGED <<cache, docsyms, rawsyms>>
    /\ RaceFrame

\* add_call: self.calls[call_name] = []
RCallNew(w) ==
    /\ rw[w].pc = "c_new"
    /\ LET k == calls_data(rw[w].file, parse(rw[w].src))[rw[w].i]
       IN cache' = [cache EXCEPT !.calls = Put(@, k[1].call, <<>>)]
    /\ rw' = [rw EXCEPT ![w].pc = "c_app"]
    /\ UNCHANGED <<docsyms, rawsyms>>
    /\ RaceFrame

\* add_call: self.calls[call_name].append(call_info)
RCallAppend(w) ==
    /\ rw[w].pc = "c_app"
    /\ LET ks == calls_data(rw[w].file, parse(rw[w].src))
           k == ks[rw[w].i]
       IN /\ cache' = add_call(cache, k[1], k[2], k[3], k[4])
          /\ rw' = [rw EXCEPT ![w] =
                       IF rw[w].i < Len(ks) THEN Goto(rw[w], "c_chk", rw[w].i + 1)
                       ELSE Goto(rw[w], "convert", 0)]
    /\ UNCHANGED <<docsyms, rawsyms>>
    /\ RaceFrame

\* _convert_single_file_to_document_symbols
RConvert(w) ==
    /\ rw[w].pc = "convert"
    /\ LET f == rw[w].file
           src == rw[w].src
       IN /\ docsyms' = Put(docsyms, f,
                 [hash |-> md5(src),
                  syms |-> DocumentSymbols(src, parse(src).methods)])
          /\ rawsyms' = Put(rawsyms, f, md5(src))
    /\ rw' = [rw EXCEPT ![w].pc = "done"]
    /\ UNCHANGED cache
    /\ RaceFrame

RaceNext ==
    \E w \in RaceWorkers :
        \/ RStart(w)
        \/ RMethodLen(w)
        \/ RMethodAppend(w)
        \/ RNameCheck(w)
        \/ RNameNew(w)
        \/ RNameAppend(w)
        \/ RModCheck(w)
        \/ RModNew(w)
        \/ RModAppend(w)
        \/ RExportAppend(w)
        \/ RVarAdd(w)
        \/ RCallCheck(w)
        \/ RCallNew(w)
        \/ RCallAppend(w)
        \/ RConvert(w)

SpecRace == RaceInit /\ [][RaceNext]_vars

\* the other variables at rest
NoRace == rw = [w \in {} |-> 0]

-----------------------------------------------------------------------------
(* The incremental indexer.  One coordinating thread runs a full sync pass *)
(* (_start_server) or an indexFiles call (_index_files_with_local_parser); *)
(* the pool's threads run _parse_file_local, one call per submitted path;  *)
(* the environment changes files at any moment.  Here one file's inserts   *)
(* into the cache are one step (SpecRace takes them apart).                *)

\* custom_settings.get("enable_hash_prefiltering", True)
enable_hash_prefiltering == TRUE

\* the order in which os.walk meets the files
FileOrder == <<"f1", "f2">>

\* _find_all_bsl_files
find_all_bsl_files(fsys) == SelectSeq(FileOrder, LAMBDA f : fsys[f] # NoFile)

\* _compute_file_hash: "" when the file cannot be read
compute_file_hash(content) == IF content = NoFile THEN "" ELSE md5(content)

\* a slip _is_file_cached could make: the stored hash is not compared
is_file_cached_KeyOnly(ds, f, file_hash) == f \in DOMAIN ds

\* _is_file_cached
is_file_cached(ds, f, file_hash) == f \in DOMAIN ds /\ ds[f].hash = file_hash

\* a slip _find_files_to_index could make: a file without a hash is skipped
find_files_to_index_SkipUnhashed(all_files, fsys, ds) ==
    SelectSeq(all_files,
              LAMBDA f : /\ compute_file_hash(fsys[f]) # ""
                         /\ ~is_file_cached(ds, f, compute_file_hash(fsys[f])))

\* _find_files_to_index
RECURSIVE find_files_to_index(_, _, _)
find_files_to_index(all_files, fsys, ds) ==
    IF all_files = <<>> THEN <<>>
    ELSE LET f == Head(all_files)
             file_hash == compute_file_hash(fsys[f])
             rest == find_files_to_index(Tail(all_files), fsys, ds)
         IN IF file_hash = "" THEN <<f>> \o rest
            ELSE IF enable_hash_prefiltering /\ is_file_cached(ds, f, file_hash)
                 THEN rest
                 ELSE <<f>> \o rest

\* the projection entry written for a content and a list of methods
Projection(content, methods) ==
    [hash |-> md5(content), syms |-> DocumentSymbols(content, methods)]

\* the methods of the cache's entries of one file
CachedMethods(c, f) ==
    LET es == FileMethods(c, f) IN [i \in 1..Len(es) |-> es[i].method]

\* _convert_local_cache_to_document_symbols(only_new_files=True), over the
\* files left to convert; st holds docsyms, rawsyms, converted and fcc
RECURSIVE convert_files(_, _, _, _)
convert_files(st, c, fsys, todo) ==
    IF todo = <<>> THEN st
    ELSE LET f == Head(todo)
             cached == f \in DOMAIN st.fcc
             content == IF cached THEN st.fcc[f] ELSE fsys[f]
         IN IF ~cached /\ fsys[f] = NoFile
            THEN convert_files(st, c, fsys, Tail(todo))
            ELSE convert_files(
                     [docsyms |-> Put(st.docsyms, f,
                                      Projection(content, CachedMethods(c, f))),
                      rawsyms |-> Put(st.rawsyms, f, md5(content)),
                      converted |-> st.converted \cup {f},
                      fcc |-> Put(st.fcc, f, content)],
                     c, fsys, Tail(todo))

convert_local_cache_to_document_symbols(st, c, fsys) ==
    convert_files(st, c, fsys,
        SelectSeq(FileOrder,
                  LAMBDA f : FileMethods(c, f) # <<>> /\ f \notin st.converted))

\* _remove_deleted_files_from_cache, over the keys of the projection; st
\* holds docsyms, rawsyms, converted, fcc and cache
RECURSIVE remove_keys(_, _, _)
remove_keys(st, existing, keys) ==
    IF keys = {} THEN st
    ELSE LET k == CHOOSE x \in keys : TRUE
         IN IF k \in existing
            THEN remove_keys(st, existing, keys \ {k})
            ELSE remove_keys(
                     [docsyms |-> Drop(st.docsyms, k),
                      rawsyms |-> Drop(st.rawsyms, k),
                      cache |-> remove_file_data(st.cache, k),
                      converted |-> st.converted \ {k},
                      fcc |-> Drop(st.fcc, k)],
                     existing, keys \ {k})

remove_deleted_files_from_cache(st, existing_files) ==
    remove_keys(st, {existing_files[i] : i \in 1..Len(existing_files)},
                DOMAIN st.docsyms)

\* the inserts of _parse_file_local into the local cache: the methods, the
\* module variables, the global calls, then the calls inside the methods
insert_parse_result(c, f, pr) ==
    add_calls_batch(
        add_calls_batch(
            add_module_vars_batch(
                add_methods_batch(c, methods_data(f, pr)),
                vars_data(f, pr)),
            global_calls_data(f, pr)),
        method_calls(f, pr.methods, 1))

\* a future as submitted
NewTask(f) ==
    [file |-> f, pc |-> "start", src |-> NoFile, exc |-> "",
     ins |-> FALSE, proj |-> FALSE, reported |-> FALSE]

\* a slip of the batch loop: every exception of a worker is reported as a
\* timeout
outcome_AllTimeout(task, res) ==
    IF task.pc = "done" THEN "ok" ELSE "timeout"

\* a slip of the batch loop: after one failure every later file is failed
outcome_Sticky(task, res) ==
    IF \E g \in DOMAIN res : res[g] # "ok" THEN "error"
    ELSE IF task.pc = "done" THEN "ok"
    ELSE IF task.exc = "timeout" THEN "timeout" ELSE "error"

\* the outcome the batch loop records for a finished future: None, the
\* TimeoutError branch, or the exception
outcome(task, res) ==
    IF task.pc = "done" THEN "ok"
    ELSE IF task.exc = "timeout" THEN "timeout" ELSE "error"

\* the projections a server can start with: what a previous run saved for
\* some of the files
LoadedProjections ==
    UNION { [S -> {Projection(SrcA, parse(SrcA).methods)}] : S \in SUBSET Files }

Resting == srv.pc \in {"idle", "ready", "returned"}

IdxInit ==
    /\ cache = BSLCache
    /\ last = [op |-> "init", file |-> "", pre |-> BSLCache, arg |-> <<>>]
    /\ fs \in [Files -> {NoFile, SrcA}]
    /\ docsyms \in LoadedProjections
    /\ rawsyms = [f \in DOMAIN docsyms |-> docsyms[f].hash]
    /\ NoRace
    /\ NoIndexer

IdxFrame == UNCHANGED <<last, rw>>

\* a new batch: the futures, and the loop's locals
Submit(paths) ==
    /\ tasks' = [i \in 1..Len(paths) |-> NewTask(paths[i])]
    /\ results' = EmptyDict
    /\ yielded' = {}
    /\ processed' = {}
    /\ before' = [cache |-> cache, docsyms |-> docsyms]

NoBatch ==
    /\ tasks' = <<>>
    /\ results' = EmptyDict
    /\ yielded' = {}
    /\ processed' = {}
    /\ UNCHANGED before

\* _start_server, step 1: the enumeration; nothing more when it is empty
SyncStart ==
    /\ Resting
    /\ used.ops < MaxOps
    /\ used' = [used EXCEPT !.ops = @ + 1]
    /\ LET all_bsl_files == find_all_bsl_files(fs)
       IN srv' = [pc |-> IF all_bsl_files = <<>> THEN "ready" ELSE "enumerated",
                  kind |-> "sync", all_files |-> all_bsl_files, paths |-> <<>>,
                  callback |-> "own", saves |-> <<>>]
    /\ NoBatch
    /\ UNCHANGED <<cache, fs, docsyms, rawsyms, converted, fcc, hist>>
    /\ IdxFrame

\* _start_server, steps 2 and 3: the files to index, and their submission
SyncFind ==
    /\ srv.pc = "enumerated"
    /\ LET files_to_index == find_files_to_index(srv.all_files, fs, docsyms)
       IN IF files_to_index # <<>>
          THEN /\ srv' = [srv EXCEPT !.pc = "indexing", !.paths = files_to_index]
               /\ Submit(files_to_index)
          ELSE /\ srv' = [srv EXCEPT !.pc = "reconcile"]
               /\ NoBatch
    /\ UNCHANGED <<cache, fs, docsyms, rawsyms, converted, fcc, hist, used>>
    /\ IdxFrame

\* _index_files_with_local_parser on a list of paths, called with the save
\* callback "none" (save_cache_callback=None) or "given" (a callable of the
\* caller, which may raise); _start_server passes its "own", which catches
\* what save_cache raises
IndexFilesWith(callback) ==
    /\ Resting
    /\ used.ops < MaxOps
    /\ used' = [used EXCEPT !.ops = @ + 1]
    /\ \E paths \in UNION { [1..n -> Files] : n \in 1..MaxTasks } :
          /\ srv' = [pc |-> "indexing", kind |-> "index", all_files |-> <<>>,
                     paths |-> paths, callback |-> callback, saves |-> <<>>]
          /\ Submit(paths)
    /\ UNCHANGED <<cache, fs, docsyms, rawsyms, converted, fcc, hist>>
    /\ IdxFrame

\* indexFiles: _index_files_batch, without a callback
IndexFiles == IndexFilesWith("none")

\* the same with a callback of the caller
IndexFilesSaving == IndexFilesWith("given")

\* how a call of the save callback can end, as the batch loop sees it
SaveEnds(callback) == IF callback = "given" THEN {"ok", "raised"} ELSE {"ok"}

\* a slip of the batch loop: the callback is called outside a try of its
\* own, so what it raises reaches the outer except clause, which overwrites
\* the file's outcome
recorded_Unguarded(o, save) == IF save = "raised" THEN "error" ELSE o

\* results[file_path] at the end of a turn of the loop in which the file got
\* the outcome o and the callback ended as save says ("" when it was not
\* called): "except Exception" around the call keeps the outcome
recorded(o, save) == o

TaskFrame == UNCHANGED <<fs, srv, results, yielded, processed, before, used,
                         converted, fcc>>

\* _parse_file_local returns without a write: the file is not there, the
\* projection holds its hash, or it is empty
TSkip(t) ==
    /\ tasks[t].pc = "start"
    /\ LET f == tasks[t].file
       IN \/ fs[f] = NoFile
          \/ is_file_cached(docsyms, f, md5(fs[f]))
          \/ fs[f] = SrcBlank
    /\ tasks' = [tasks EXCEPT ![t].pc = "done"]
    /\ UNCHANGED <<cache, docsyms, rawsyms, hist>>
    /\ TaskFrame /\ IdxFrame

\* open() or read() raises: an OSError, or its subclass TimeoutError
TReadError(t) ==
    /\ tasks[t].pc = "start"
    /\ fs[tasks[t].file] # NoFile
    /\ \E e \in {"error", "timeout"} :
          tasks' = [tasks EXCEPT ![t].pc = "failed", ![t].exc = e]
    /\ UNCHANGED <<cache, docsyms, rawsyms, hist>>
    /\ TaskFrame /\ IdxFrame

\* the read, the checks and the parse
TParse(t) ==
    /\ tasks[t].pc = "start"
    /\ LET f == tasks[t].file
       IN /\ fs[f] \notin {NoFile, SrcBlank}
          /\ ~is_file_cached(docsyms, f, md5(fs[f]))
          /\ tasks' = [tasks EXCEPT ![t].pc = "insert", ![t].src = fs[f]]
    /\ UNCHANGED <<cache, docsyms, rawsyms, hist>>
    /\ TaskFrame /\ IdxFrame

\* the parse never returns
THang(t) ==
    /\ tasks[t].pc = "start"
    /\ LET f == tasks[t].file
       IN /\ fs[f] \notin {NoFile, SrcBlank}
          /\ ~is_file_cached(docsyms, f, md5(fs[f]))
          /\ tasks' = [tasks EXCEPT ![t].pc = "hung", ![t].src = fs[f]]
    /\ UNCHANGED <<cache, docsyms, rawsyms, hist>>
    /\ TaskFrame /\ IdxFrame

\* the inserts into the local cache
TInsert(t) ==
    /\ tasks[t].pc = "insert"
    /\ LET f == tasks[t].file
       IN /\ cache' = insert_parse_result(cache, f, parse(tasks[t].src))
          /\ hist' = [hist EXCEPT ![f] = <<@[2], tasks[t].src>>]
    /\ tasks' = [tasks EXCEPT ![t].pc = "convert", ![t].ins = TRUE]
    /\ UNCHANGED <<docsyms, rawsyms>>
    /\ TaskFrame /\ IdxFrame

\* _convert_single_file_to_document_symbols
TConvert(t) ==
    /\ tasks[t].pc = "convert"
    /\ LET f == tasks[t].file
           src == tasks[t].src
       IN /\ docsyms' = Put(docsyms, f, Projection(src, parse(src).methods))
          /\ rawsyms' = Put(rawsyms, f, md5(src))
    /\ tasks' = [tasks EXCEPT ![t].pc = "done", ![t].proj = TRUE]
    /\ UNCHANGED <<cache, hist>>
    /\ TaskFrame /\ IdxFrame

\* the conversion raises before the projection entry is written
TConvertError(t) ==
    /\ tasks[t].pc = "convert"
    /\ tasks' = [tasks EXCEPT ![t].pc = "failed", ![t].exc = "error"]
    /\ UNCHANGED <<cache, docsyms, rawsyms, hist>>
    /\ TaskFrame /\ IdxFrame

\* one turn of "for future in as_completed(futures)"
Collect(t) ==
    /\ srv.pc = "indexing"
    /\ t \notin yielded
    /\ tasks[t].pc \in {"done", "failed"}
    /\ yielded' = yielded \cup {t}
    /\ LET f == tasks[t].file
           o == outcome(tasks[t], results)
           completed_count == Cardinality(processed) + 1
       IN IF f \in processed
          THEN UNCHANGED <<results, processed, tasks, srv>>
          ELSE /\ processed' = processed \cup {f}
               /\ tasks' = [tasks EXCEPT ![t].reported = TRUE]
               /\ IF /\ srv.callback # "none"
                     /\ o \in {"ok", "timeout"}
                     /\ completed_count % SaveEvery = 0
                  THEN \E save \in SaveEnds(srv.callback) :
                          /\ srv' = [srv EXCEPT !.saves = Append(@, save)]
                          /\ results' = Put(results, f, recorded(o, save))
                  ELSE /\ results' = Put(results, f, recorded(o, ""))
                       /\ UNCHANGED srv
    /\ UNCHANGED <<cache, fs, docsyms, rawsyms, converted, fcc,
                   hist, before, used>>
    /\ IdxFrame

\* a slip the return could make: the files that failed are left out of the
\* map
BatchReturn_DropFailed ==
    /\ srv.pc = "indexing"
    /\ yielded = DOMAIN tasks
    /\ results' = [f \in { g \in DOMAIN results : results[g] = "ok" } |-> "ok"]
    /\ srv' = [srv EXCEPT !.pc = IF srv.kind = "sync" THEN "convert" ELSE "returned"]
    /\ UNCHANGED <<cache, fs, docsyms, rawsyms, converted, fcc, tasks, yielded,
                   processed, hist, before, used>>
    /\ IdxFrame

\* the loop ends when every future was handed out; the finally block fails
\* the files of futures that are not done
BatchReturn ==
    /\ srv.pc = "indexing"
    /\ yielded = DOMAIN tasks
    /\ LET pending == { t \in DOMAIN tasks : tasks[t].pc \notin {"done", "failed"} }
           missing == { tasks[t].file : t \in pending } \ DOMAIN results
       IN results' = [f \in DOMAIN results \cup missing |->
                        IF f \in DOMAIN results THEN results[f] ELSE "error"]
    /\ \E save \in SaveEnds(srv.callback) :
          srv' = [srv EXCEPT
                    !.pc = IF srv.kind = "sync" THEN "convert" ELSE "returned",
                    !.saves = IF srv.callback # "none" THEN Append(@, save) ELSE @]
    /\ UNCHANGED <<cache, fs, docsyms, rawsyms, converted, fcc, tasks, yielded,
                   processed, hist, before, used>>
    /\ IdxFrame

\* _start_server, step 4
SyncConvert ==
    /\ srv.pc = "convert"
    /\ LET st == convert_local_cache_to_document_symbols(
                     [docsyms |-> docsyms, rawsyms |-> rawsyms,
                      converted |-> converted, fcc |-> fcc], cache, fs)
       IN /\ docsyms' = st.docsyms
          /\ rawsyms' = st.rawsyms
          /\ converted' = st.converted
          /\ fcc' = st.fcc
    /\ srv' = [srv EXCEPT !.pc = "reconcile"]
    /\ UNCHANGED <<cache, fs, tasks, results, yielded, processed, hist, before, used>>
    /\ IdxFrame

\* _start_server, steps 5 and 6
SyncReconcile ==
    /\ srv.pc = "reconcile"
    /\ LET st == remove_deleted_files_from_cache(
                     [docsyms |-> docsyms, rawsyms |-> rawsyms, cache |-> cache,
                      converted |-> converted, fcc |-> fcc], srv.all_files)
       IN /\ docsyms' = st.docsyms
          /\ rawsyms' = st.rawsyms
          /\ cache' = st.cache
          /\ converted' = st.converted
          /\ fcc' = st.fcc
          /\ hist' = [f \in Files |->
                        IF f \in DOMAIN docsyms /\ f \notin DOMAIN st.docsyms
                        THEN <<NoFile, NoFile>> ELSE hist[f]]
    /\ srv' = [srv EXCEPT !.pc = "ready"]
    /\ UNCHANGED <<fs, tasks, results, yielded, processed, before, used>>
    /\ IdxFrame

\* the environment writes, empties, creates or deletes a file
Edit ==
    /\ used.edits < MaxEdits
    /\ \E f \in Files : \E c \in Contents \ {fs[f]} :
          fs' = [fs EXCEPT ![f] = c]
    /\ used' = [used EXCEPT !.edits = @ + 1]
    /\ UNCHANGED <<cache, docsyms, rawsyms, converted, fcc, srv, tasks, results,
                   yielded, processed, hist, before>>
    /\ IdxFrame

\* a step of a pool thread
TaskStep(t) ==
    \/ TSkip(t)
    \/ TReadError(t)
    \/ TParse(t)
    \/ THang(t)
    \/ TInsert(t)
    \/ TConvert(t)
    \/ TConvertError(t)

\* a step of the running batch: of a pool thread, or of the batch loop
BatchStep ==
    \/ \E t \in DOMAIN tasks : TaskStep(t)
    \/ \E t \in DOMAIN tasks : Collect(t)
    \/ BatchReturn

IdxNext ==
    \/ SyncStart
    \/ SyncFind
    \/ IndexFiles
    \/ \E t \in DOMAIN tasks : TSkip(t)
    \/ \E t \in DOMAIN tasks : TReadError(t)
    \/ \E t \in DOMAIN tasks : TParse(t)
    \/ \E t \in DOMAIN tasks : THang(t)
    \/ \E t \in DOMAIN tasks : TInsert(t)
    \/ \E t \in DOMAIN tasks : TConvert(t)
    \/ \E t \in DOMAIN tasks : TConvertError(t)
    \/ \E t \in DOMAIN tasks : Collect(t)
    \/ BatchReturn
    \/ SyncConvert
    \/ SyncReconcile
    \/ Edit

SpecIdx == IdxInit /\ [][IdxNext]_vars


\* One batch of indexFiles, started in a state an earlier pass left: the
\* files of prior were indexed with content SrcA, and the files may have
\* changed since; the files stay as they are while the batch runs
RECURSIVE IndexedBefore(_, _)
IndexedBefore(c, todo) ==
    IF todo = <<>> THEN c
    ELSE IndexedBefore(insert_parse_result(c, Head(todo), parse(SrcA)), Tail(todo))

BatchInit ==
    /\ \E prior \in SUBSET Files :
          /\ cache = IndexedBefore(BSLCache, SelectSeq(FileOrder, LAMBDA f : f \in prior))
          /\ docsyms = [f \in prior |-> Projection(SrcA, parse(SrcA).methods)]
          /\ rawsyms = [f \in prior |-> md5(SrcA)]
          /\ hist = [f \in Files |->
                       IF f \in prior THEN <<NoFile, SrcA>> ELSE <<NoFile, NoFile>>]
    /\ last = [op |-> "init", file |-> "", pre |-> BSLCache, arg |-> <<>>]
    /\ fs \in [Files -> {NoFile, SrcA, SrcB}]
    /\ NoRace
    /\ converted = {}
    /\ fcc = EmptyDict
    /\ srv = [pc |-> "idle", kind |-> "none", all_files |-> <<>>, paths |-> <<>>,
              callback |-> "none", saves |-> <<>>]
    /\ tasks = <<>>
    /\ results = EmptyDict
    /\ yielded = {}
    /\ processed = {}
    /\ before = [cache |-> BSLCache, docsyms |-> EmptyDict]
    /\ used = [ops |-> 0, edits |-> 0]

BatchNext ==
    \/ srv.pc = "idle" /\ IndexFiles
    \/ \E t \in DOMAIN tasks : TSkip(t)
    \/ \E t \in DOMAIN tasks : TReadError(t)
    \/ \E t \in DOMAIN tasks : TParse(t)
    \/ \E t \in DOMAIN tasks : THang(t)
    \/ \E t \in DOMAIN tasks : TInsert(t)
    \/ \E t \in DOMAIN tasks : TConvert(t)
    \/ \E t \in DOMAIN tasks : TConvertError(t)
    \/ \E t \in DOMAIN tasks : Collect(t)
    \/ BatchReturn

SpecBatch == BatchInit /\ [][BatchNext]_vars

\* invalidateFile: _invalidate_file_cache, which removes the file's data and
\* runs _parse_file_local in the calling thread.  st holds docsyms, rawsyms,
\* cache, converted and fcc; content is the file as the call reads it; fail
\* says where _parse_file_local raises, if it does.
invalidate_file_cache_NoRemove(st, f, content, fail) ==
    LET removed == [st EXCEPT !.docsyms = Drop(@, f),
                              !.rawsyms = Drop(@, f),
                              !.fcc = Drop(@, f),
                              !.converted = @ \ {f}]
        inserted == [removed EXCEPT
                        !.cache = insert_parse_result(@, f, parse(content))]
    IN IF content = NoFile \/ fail = "read"
            \/ is_file_cached(removed.docsyms, f, md5(content))
            \/ content = SrcBlank
       THEN removed
       ELSE IF fail = "convert" THEN inserted
       ELSE [inserted EXCEPT
               !.docsyms = Put(@, f, Projection(content, parse(content).methods)),
               !.rawsyms = Put(@, f, md5(content))]

invalidate_file_cache(st, f, content, fail) ==
    LET removed == [st EXCEPT !.docsyms = Drop(@, f),
                              !.rawsyms = Drop(@, f),
                              !.cache = remove_file_data(@, f),
                              !.fcc = Drop(@, f),
                              !.converted = @ \ {f}]
        inserted == [removed EXCEPT
                        !.cache = insert_parse_result(@, f, parse(content))]
    IN IF content = NoFile \/ fail = "read"
            \/ is_file_cached(removed.docsyms, f, md5(content))
            \/ content = SrcBlank
       THEN removed
       ELSE IF fail = "convert" THEN inserted
       ELSE [inserted EXCEPT
               !.docsyms = Put(@, f, Projection(content, parse(content).methods)),
               !.rawsyms = Put(@, f, md5(content))]

\* a call of invalidateFile while no batch runs; it returns, or the read or
\* the conversion of _parse_file_local raises out of it
Invalidate ==
    /\ srv.pc = "idle"
    /\ used.ops < MaxOps
    /\ used' = [used EXCEPT !.ops = @ + 1]
    /\ \E f \in Files :
       \E fail \in {"", "read", "convert"} :
          LET st == invalidate_file_cache(
                        [docsyms |-> docsyms, rawsyms |-> rawsyms, cache |-> cache,
                         converted |-> converted, fcc |-> fcc], f, fs[f], fail)
              raised == \/ fail = "read" /\ fs[f] # NoFile
                        \/ fail = "convert" /\ fs[f] \notin {NoFile, SrcBlank}
              parsed == fs[f] \notin {NoFile, SrcBlank} /\ fail # "read"
          IN /\ docsyms' = st.docsyms
             /\ rawsyms' = st.rawsyms
             /\ cache' = st.cache
             /\ converted' = st.converted
             /\ fcc' = st.fcc
             /\ last' = [op |-> IF raised THEN "invalidate_raised" ELSE "invalidate",
                         file |-> f, pre |-> cache, arg |-> fs[f]]
             /\ hist' = [hist EXCEPT ![f] =
                            IF parsed THEN <<NoFile, fs[f]>> ELSE <<NoFile, NoFile>>]
    /\ UNCHANGED <<fs, rw, srv, tasks, results, yielded, processed, before>>

\* invalidateFile calls and file changes, from a state an earlier pass left
InvNext ==
    \/ Invalidate
    \/ Edit

SpecInv == BatchInit /\ [][InvNext]_vars

\* the cache on its own: no file, no worker, no indexer
CacheOnlyInit ==
    /\ CacheInit
    /\ fs = [f \in Files |-> NoFile]
    /\ docsyms = EmptyDict
    /\ rawsyms = EmptyDict
    /\ NoRace
    /\ AtRest
    /\ hist = [f \in Files |-> <<>>]

\* the call inputs of each file that the operation recorded in l leaves
\* inserted and not removed
Logged(h, l) ==
    CASE l.op \in {"add_call", "add_calls_batch"} ->
            [f \in Files |-> h[f] \o SelectSeq(l.arg, LAMBDA k : k[2] = f)]
      [] l.op = "remove_file_data" -> [h EXCEPT ![l.file] = <<>>]
      [] l.op = "clear" -> [f \in Files |-> <<>>]
      [] OTHER -> h

CacheFrame ==
    /\ hist' = Logged(hist, last')
    /\ UNCHANGED <<fs, docsyms, rawsyms, rw, converted, fcc, srv, tasks,
                   results, yielded, processed, before, used>>

CacheOnlyNext ==
    \/ AddMethod /\ CacheFrame
    \/ AddModuleVar /\ CacheFrame
    \/ AddCall /\ CacheFrame
    \/ AddMethodsBatch /\ CacheFrame
    \/ AddModuleVarsBatch /\ CacheFrame
    \/ AddCallsBatch /\ CacheFrame
    \/ AddModule /\ CacheFrame
    \/ RemoveFileData /\ CacheFrame
    \/ Clear /\ CacheFrame

SpecCache == CacheOnlyInit /\ [][CacheOnlyNext]_vars

-----------------------------------------------------------------------------
(* Claims *)

\* every position of the method list is in its buckets exactly once, and
\* every position an index holds is in range and belongs to its entry
IndexesConsistent(c) ==
    /\ \A i \in 0..(Len(c.methods) - 1) :
          LET mi == c.methods[i + 1]
          IN /\ Lower(mi.method.name) \in DOMAIN c.name_index
             /\ Count(c.name_index[Lower(mi.method.name)], i) = 1
             /\ mi.module # "" =>
                   /\ Lower(mi.module) \in DOMAIN c.module_index
                   /\ Count(c.module_index[Lower(mi.module)], i) = 1
             /\ Count(c.export_index, i) = (IF mi.method.is_export THEN 1 ELSE 0)
    /\ \A k \in DOMAIN c.name_index :
          \A j \in 1..Len(c.name_index[k]) :
              /\ c.name_index[k][j] \in 0..(Len(c.methods) - 1)
              /\ Lower(c.methods[c.name_index[k][j] + 1].method.name) = k
    /\ \A k \in DOMAIN c.module_index :
          \A j \in 1..Len(c.module_index[k]) :
              /\ c.module_index[k][j] \in 0..(Len(c.methods) - 1)
              /\ c.methods[c.module_index[k][j] + 1].module # ""
              /\ Lower(c.methods[c.module_index[k][j] + 1].module) = k
    /\ \A j \in 1..Len(c.export_index) :
          /\ c.export_index[j] \in 0..(Len(c.methods) - 1)
          /\ c.methods[c.export_index[j] + 1].method.is_export

\* C1: after any sequence of addMethod, batched insert, removeFileData and
\* clear, applied one at a time, the name, module and export indexes agree
\* with the method list: each position is in its name bucket once, in its
\* module bucket once when the module is non-empty, in the export index
\* exactly when exported, and no index holds a position that is out of range
\* or belongs to another entry.
C1_IndexesAgree == IndexesConsistent(cache)

\* a removal that took an entry from before a kept one, so that the kept
\* entries changed position and the rebuilt indexes are not empty
C1_Witness ==
    /\ last.op = "remove_file_data"
    /\ Len(last.pre.methods) >= 2
    /\ last.pre.methods[1].filename = last.file
    /\ Len(cache.methods) >= 1
    /\ cache.export_index # <<>>
    /\ DOMAIN cache.module_index # {}

\* every method entry and every call record the threads inserted is in the
\* cache
NothingLost ==
    \A w \in DOMAIN rw :
        LET f == rw[w].file
            pr == parse(rw[w].src)
        IN rw[w].src \in {SrcA, SrcB} =>
              /\ \A i \in 1..Len(pr.methods) :
                    \E j \in 1..Len(cache.methods) :
                        cache.methods[j] = [method |-> pr.methods[i], filename |-> f,
                                            module |-> ModuleOf(f)]
              /\ \A i \in 1..Len(calls_data(f, pr)) :
                    LET k == calls_data(f, pr)[i]
                    IN \E ci \in FileCalls(cache, f) :
                          /\ ci.call = k[1].call /\ ci.line = k[1].line
                          /\ ci.character = k[1].character /\ ci.method_name = k[3]

\* C2: when the workers of one indexing pass insert concurrently into the
\* shared cache, the mutations are serialized: once every worker has
\* finished, every position in the name, module and export indexes refers
\* to the method it was recorded for, and no inserted method entry or call
\* record is lost.
C2_Serialized ==
    (\A w \in DOMAIN rw : rw[w].pc = "done") =>
        IndexesConsistent(cache) /\ NothingLost

-----------------------------------------------------------------------------
(* Claims on the indexer *)

\* the entries, variables and call records one parse of content src puts in
\* the cache for file f
ExpectedEntries(f, src) ==
    [i \in 1..Len(parse(src).methods) |->
        [method |-> parse(src).methods[i], filename |-> f, module |-> ModuleOf(f)]]

ExpectedCalls(f, src) ==
    LET ks == calls_data(f, parse(src))
    IN { [filename |-> f, call |-> ks[i][1].call, line |-> ks[i][1].line,
          character |-> ks[i][1].character, method_name |-> ks[i][3],
          module |-> ks[i][4]] : i \in 1..Len(ks) }

\* the number of call records of file f over all buckets
NumFileCalls(c, f) ==
    LET n(k) == Cardinality({ j \in 1..Len(c.calls[k]) : c.calls[k][j].filename = f })
        RECURSIVE Sum(_)
        Sum(keys) == IF keys = {} THEN 0
                     ELSE LET k == CHOOSE x \in keys : TRUE
                          IN n(k) + Sum(keys \ {k})
    IN Sum(DOMAIN c.calls)

\* the cache holds for f the data of one parse of src, and nothing else of f
HoldsExactly(c, f, src) ==
    /\ FileMethods(c, f) = ExpectedEntries(f, src)
    /\ Get(c.module_vars, f, <<>>) = parse(src).module_vars
    /\ FileCalls(c, f) = ExpectedCalls(f, src)
    /\ NumFileCalls(c, f) = Len(calls_data(f, parse(src)))

\* the cache holds for f at least the methods and call records of src
HoldsData(c, f, src) ==
    /\ \A i \in 1..Len(ExpectedEntries(f, src)) :
          \E j \in 1..Len(find_methods_all(c)) :
              find_methods_all(c)[j] = ExpectedEntries(f, src)[i]
    /\ \A k \in ExpectedCalls(f, src) :
          \E j \in 1..Len(find_calls(c, k.call)) : find_calls(c, k.call)[j] = k

\* the file occurs once in the batch's paths
Once(f) == Cardinality({ t \in DOMAIN tasks : tasks[t].file = f }) = 1

\* C3: a file that has entries in the cache and is indexed again after its
\* content changed has its method entries, module variables and call records
\* replaced wholesale: afterwards the cache holds for it exactly the entries
\* of the latest parse, none of the earlier one, and no duplicate.  hist[f]
\* is the content of the last two inserts for f; the batch names f once, so
\* the earlier insert is an earlier pass's.
C3_ReplacedWholesale ==
    Resting =>
        \A f \in Files :
            (Once(f) /\ hist[f][1] # NoFile /\ hist[f][1] # hist[f][2]) =>
                HoldsExactly(cache, f, hist[f][2])

\* C4: after a full sync pass the cache and the projection are synchronized:
\* every candidate whose projection entry carries the hash of the file's
\* current content has the methods and call records of that content in the
\* cache, the files skipped as unchanged included.
C4_SyncedAfterPass ==
    (srv.pc = "ready" /\ srv.kind = "sync") =>
        \A i \in 1..Len(srv.all_files) :
            LET f == srv.all_files[i]
            IN (fs[f] # NoFile /\ is_file_cached(docsyms, f, md5(fs[f]))) =>
                  HoldsData(cache, f, fs[f])

\* C5: the hash stored with a projection entry is the hash of the content
\* the entry's symbols were extracted from, in every reachable state.
C5_HashOfExtractedContent ==
    \A f \in DOMAIN docsyms :
        \E c \in Sources : docsyms[f] = Projection(c, parse(c).methods)

\* C6: after a full sync pass no file absent from the pass's enumeration has
\* a projection entry, cache entries or an entry in an auxiliary per-file
\* cache, for every enumeration, the empty one included.
C6_DeletedFilesGone ==
    (srv.pc = "ready" /\ srv.kind = "sync") =>
        \A f \in Files \ { srv.all_files[i] : i \in 1..Len(srv.all_files) } :
            /\ f \notin DOMAIN docsyms
            /\ f \notin DOMAIN rawsyms
            /\ FileMethods(cache, f) = <<>>
            /\ f \notin DOMAIN cache.module_vars
            /\ FileCalls(cache, f) = {}
            /\ f \notin converted
            /\ f \notin DOMAIN fcc

\* C7: a parse that never finishes does not stall the batch: while the batch
\* has not returned, a pool thread or the batch loop can take a step.
C7_BatchNotStalled ==
    (srv.pc = "indexing" /\ \E t \in DOMAIN tasks : tasks[t].pc = "hung") =>
        ENABLED BatchStep

\* C8: when a file's indexing is reported as timed out, the timed-out worker
\* has written nothing for the file, and the cache entries and the projection
\* entry the file had before the batch are unchanged while the batch runs and
\* when it returns.
C8_TimedOutUntouched ==
    \A t \in DOMAIN tasks :
        LET f == tasks[t].file
        IN (tasks[t].reported /\ results[f] = "timeout") =>
              /\ ~tasks[t].ins
              /\ ~tasks[t].proj
              /\ (Once(f) /\ srv.pc \in {"indexing", "returned", "convert"}) =>
                    /\ FileMethods(cache, f) = FileMethods(before.cache, f)
                    /\ Get(cache.module_vars, f, <<>>)
                         = Get(before.cache.module_vars, f, <<>>)
                    /\ FileCalls(cache, f) = FileCalls(before.cache, f)
                    /\ (f \in DOMAIN docsyms) = (f \in DOMAIN before.docsyms)
                    /\ f \in DOMAIN docsyms => docsyms[f] = before.docsyms[f]

\* a returned batch in which a file that had entries and a projection entry
\* before the batch was reported as timed out
C8_Witness ==
    /\ srv.pc = "returned"
    /\ \E t \in DOMAIN tasks :
          LET f == tasks[t].file
          IN /\ tasks[t].reported
             /\ results[f] = "timeout"
             /\ Once(f)
             /\ FileMethods(before.cache, f) # <<>>
             /\ f \in DOMAIN before.docsyms

BatchReturned ==
    /\ srv.pc \in {"returned", "convert", "reconcile", "ready"}
    /\ tasks # <<>>

\* C9: a file that times out or fails does not change the outcome of another
\* file: when the batch has returned, every file whose own
\* _parse_file_local calls (its read and parse) all succeeded is reported as
\* success, in whatever order the files completed.
C9_OthersSucceed ==
    BatchReturned =>
        \A f \in { tasks[t].file : t \in DOMAIN tasks } :
            (\A t \in DOMAIN tasks : tasks[t].file = f => tasks[t].pc = "done") =>
                (f \in DOMAIN results /\ results[f] = "ok")

\* a returned batch of two files: one failed or timed out, the other was
\* parsed, inserted and projected and is reported as success
C9_Witness ==
    /\ srv.pc = "returned"
    /\ \E t, u \in DOMAIN tasks :
          /\ tasks[t].file # tasks[u].file
          /\ tasks[t].pc = "failed"
          /\ results[tasks[t].file] \in {"timeout", "error"}
          /\ tasks[u].pc = "done" /\ tasks[u].ins /\ tasks[u].proj
          /\ results[tasks[u].file] = "ok"

\* C10: when indexing a file fails part-way, none of that attempt's entries
\* are visible to findMethods or findCalls afterwards.
C10_NoPartialEntries ==
    \A t \in DOMAIN tasks :
        LET f == tasks[t].file
        IN (tasks[t].pc = "failed" /\ tasks[t].ins) =>
              /\ \A j \in 1..Len(find_methods_all(cache)) :
                    \A i \in 1..Len(ExpectedEntries(f, tasks[t].src)) :
                        find_methods_all(cache)[j] # ExpectedEntries(f, tasks[t].src)[i]
              /\ \A k \in ExpectedCalls(f, tasks[t].src) :
                    \A j \in 1..Len(find_calls(cache, k.call)) :
                        find_calls(cache, k.call)[j] # k

\* C11: a file that cannot be read, or that is gone when its worker looks for
\* it, gets a failure outcome in the result map of the batch, never a success
\* outcome.  (The files stay as they are while the batch of SpecBatch runs,
\* so a file that is missing in a state was missing when its worker ran.)
C11_UnreadableFails ==
    \A t \in DOMAIN tasks :
        LET f == tasks[t].file
        IN (tasks[t].reported /\ (tasks[t].exc # "" \/ fs[f] = NoFile)) =>
              results[f] \in {"error", "timeout"}

\* the files the next full sync pass would select, started in this state
NextSyncSelection == find_files_to_index(find_all_bsl_files(fs), fs, docsyms)

\* C12: a file whose indexing failed or timed out in a pass, that is still a
\* candidate and whose current hash the projection did not hold before the
\* pass, is selected for indexing by the next full sync pass: the pass has
\* left no projection entry with the file's current hash.
C12_FailedFileRetried ==
    (srv.pc \in {"ready", "returned"}) =>
        \A f \in DOMAIN results :
            (/\ results[f] \in {"error", "timeout"}
             /\ Once(f)
             /\ fs[f] # NoFile
             /\ ~is_file_cached(before.docsyms, f, md5(fs[f]))) =>
                \E i \in 1..Len(NextSyncSelection) : NextSyncSelection[i] = f

\* C13: after invalidateFile(path) returns for a file that exists and is not
\* empty, the cache holds for the file exactly the entries parsed from the
\* content the call read and the projection entry carries that content's
\* hash; for a file that does not exist, no cached or projected data of it
\* remains.  last.arg is the content the call read.
C13_InvalidateReindexes ==
    last.op = "invalidate" =>
        IF last.arg \notin {NoFile, SrcBlank}
        THEN /\ HoldsExactly(cache, last.file, last.arg)
             /\ is_file_cached(docsyms, last.file, md5(last.arg))
             /\ docsyms[last.file] = Projection(last.arg, parse(last.arg).methods)
        ELSE last.arg = NoFile =>
                /\ FileMethods(cache, last.file) = <<>>
                /\ last.file \notin DOMAIN cache.module_vars
                /\ FileCalls(cache, last.file) = {}
                /\ last.file \notin DOMAIN docsyms
                /\ last.file \notin DOMAIN rawsyms
                /\ last.file \notin DOMAIN fcc
                /\ last.file \notin converted

\* invalidateFile has returned for a file that was changed after it was
\* indexed: the cache held entries of the file that its content no longer has
C13_Witness ==
    /\ last.op = "invalidate"
    /\ last.arg = SrcB
    /\ FileMethods(last.pre, last.file) = ExpectedEntries(last.file, SrcA)
    /\ FileMethods(cache, last.file) = ExpectedEntries(last.file, SrcB)

-----------------------------------------------------------------------------
(* Claims on remove_file_data and the batched inserts *)

\* f owns nothing in cache c
NoDataOf(c, f) ==
    /\ FileMethods(c, f) = <<>>
    /\ f \notin DOMAIN c.module_vars
    /\ FileCalls(c, f) = {}
    /\ \A i \in 1..Len(c.modules) : c.modules[i].filename # f

\* C14: after removeFileData(f) the cache holds no method entry, no
\* module-variable collection, no call record in any bucket and no module
\* record whose file is f, wherever f's entries were in the method list.
C14_RemovedFileGone ==
    last.op = "remove_file_data" => NoDataOf(cache, last.file)

\* f's entries were first and last in the list, with another file's between
C14_Witness ==
    /\ last.op = "remove_file_data"
    /\ Len(last.pre.methods) = 3
    /\ last.pre.methods[1].filename = last.file
    /\ last.pre.methods[2].filename # last.file
    /\ last.pre.methods[3].filename = last.file
    /\ Len(cache.methods) = 1

\* C15: removeFileData(f) removes nothing but f's data: the methods count of
\* getStats decreases by exactly the number of entries f owned, and every
\* method entry, variable, call record and module record of another file is
\* still in the cache.
C15_OthersKept ==
    last.op = "remove_file_data" =>
        LET f == last.file
            pre == last.pre
            other(e) == e.filename # f
        IN /\ get_stats(cache).methods
                = get_stats(pre).methods - Len(FileMethods(pre, f))
           /\ find_methods_all(cache) = SelectSeq(pre.methods, other)
           /\ \A g \in DOMAIN pre.module_vars \ {f} :
                 g \in DOMAIN cache.module_vars
                 /\ cache.module_vars[g] = pre.module_vars[g]
           /\ \A k \in DOMAIN pre.calls :
                 find_calls(cache, k) = SelectSeq(pre.calls[k], other)
           /\ cache.modules = SelectSeq(pre.modules, other)

\* f owned a method entry, and a call bucket held a record of f and a record
\* of another file
C15_Witness ==
    /\ last.op = "remove_file_data"
    /\ FileMethods(last.pre, last.file) # <<>>
    /\ \E k \in DOMAIN last.pre.calls :
          /\ \E j \in 1..Len(last.pre.calls[k]) :
                last.pre.calls[k][j].filename = last.file
          /\ \E j \in 1..Len(last.pre.calls[k]) :
                last.pre.calls[k][j].filename # last.file
          /\ Len(find_calls(cache, k)) = 1

\* C17: removeFileData(f) for a file that has no data in the cache leaves the
\* method list, the three indexes, the variable collections, the call
\* buckets and the module records unchanged.
C17_UnknownFileNoOp ==
    (last.op = "remove_file_data" /\ NoDataOf(last.pre, last.file)) =>
        cache = last.pre

\* the cache held an exported method in a module, and a call, of another file
C17_Witness ==
    /\ last.op = "remove_file_data"
    /\ NoDataOf(last.pre, last.file)
    /\ cache.export_index # <<>>
    /\ DOMAIN cache.module_index # {}
    /\ DOMAIN cache.calls # {}

\* C18: calling removeFileData(f) twice in a row leaves the cache as calling
\* it once does: in the state after a call, another call changes nothing.
C18_RemoveIdempotent ==
    last.op = "remove_file_data" => remove_file_data(cache, last.file) = cache

\* the first call removed two entries of f and left another file's entry
C18_Witness ==
    /\ last.op = "remove_file_data"
    /\ Len(FileMethods(last.pre, last.file)) = 2
    /\ Len(cache.methods) = 1

\* the single-item operations applied to the first n elements of a list, in
\* list order
RECURSIVE MethodsOneByOne(_, _, _)
MethodsOneByOne(c, es, n) ==
    IF n = 0 THEN c
    ELSE add_method(MethodsOneByOne(c, es, n - 1), es[n][1], es[n][2], es[n][3])

RECURSIVE VarsOneByOne(_, _, _)
VarsOneByOne(c, vs, n) ==
    IF n = 0 THEN c
    ELSE add_module_var(VarsOneByOne(c, vs, n - 1), vs[n][1], vs[n][2])

RECURSIVE CallsOneByOne(_, _, _)
CallsOneByOne(c, ks, n) ==
    IF n = 0 THEN c
    ELSE add_call(CallsOneByOne(c, ks, n - 1), ks[n][1], ks[n][2], ks[n][3], ks[n][4])

\* C19: a batched insert of methods, of module variables or of calls leaves
\* the cache in the state, and with the findMethods({}) result set, that
\* applying the single-item operation to each element in list order gives.
C19_BatchIsOneByOne ==
    LET items == last.arg
        n == Len(last.arg)
    IN /\ last.op = "add_methods_batch" =>
             /\ cache = MethodsOneByOne(last.pre, items, n)
             /\ SetOf(find_methods_all(cache))
                  = SetOf(find_methods_all(MethodsOneByOne(last.pre, items, n)))
       /\ last.op = "add_module_vars_batch" =>
             cache = VarsOneByOne(last.pre, items, n)
       /\ last.op = "add_calls_batch" =>
             cache = CallsOneByOne(last.pre, items, n)

\* two different methods were inserted by one batch into a cache that already
\* held a method
C19_Witness ==
    /\ last.op = "add_methods_batch"
    /\ Len(last.arg) = 2
    /\ last.arg[1] # last.arg[2]
    /\ last.pre.methods # <<>>
    /\ Len(cache.methods) = 3

-----------------------------------------------------------------------------
(* Queries: find_methods applied once to a populated cache.                *)

\* the lists of up to MaxItems method inputs
EntryLists == UNION { [1..n -> CacheEntries] : n \in 0..MaxItems }

\* the caches a sequential caller reaches by inserting methods and then,
\* possibly, removing one file's data
PopulatedCaches ==
    { add_methods_batch(BSLCache, es) : es \in EntryLists }
      \cup { remove_file_data(add_methods_batch(BSLCache, es), f) :
                es \in EntryLists, f \in Files }

\* a criterion that is present with value v, or absent
Given(v) == <<v>>

NotGiven == <<>>

\* the query dict with the keys that are given
Query(name, module, is_export, isExport, context, isproc) ==
    LET given == [name |-> name, module |-> module, is_export |-> is_export,
                  isExport |-> isExport, context |-> context, isproc |-> isproc]
    IN [k \in { x \in DOMAIN given : given[x] # NotGiven } |-> given[k][1]]

NameCriteria ==
    { Given(Exact("CALC")), Given(Exact("run")), Given(Regex("AL")),
      Given(Regex("^R")), NotGiven }

ModuleCriteria ==
    { Given(Exact("MOD")), Given(Exact("")), Given(Regex("mo")),
      Given(Regex(".*")), NotGiven }

\* the export flag under one spelling of its key, or absent
ExportCriteria ==
    { <<Given(b), NotGiven>> : b \in BOOLEAN }
      \cup { <<NotGiven, Given(b)>> : b \in BOOLEAN }
      \cup { <<NotGiven, NotGiven>> }

ContextCriteria == { Given(""), Given("Server"), NotGiven }

ProcCriteria == { Given(TRUE), Given(FALSE), NotGiven }

Queries ==
    { Query(n, m, x[1], x[2], k, p) :
        n \in NameCriteria, m \in ModuleCriteria, x \in ExportCriteria,
        k \in ContextCriteria, p \in ProcCriteria }

FindInit ==
    /\ NoIndexer
    /\ cache \in PopulatedCaches
    /\ last = [op |-> "init", file |-> "", pre |-> BSLCache, arg |-> <<>>]
    /\ fs = [f \in Files |-> NoFile]
    /\ docsyms = EmptyDict
    /\ rawsyms = EmptyDict
    /\ rw = [op |-> "none", query |-> EmptyDict, result |-> <<>>]

\* one find_methods call
FindMethods ==
    \E q \in Queries :
        /\ rw.op = "none"
        /\ rw' = [op |-> "find_methods", query |-> q,
                  result |-> find_methods(cache, q)]
        /\ UNCHANGED <<cache, last, fs, docsyms, rawsyms, idxOnly>>

FindNext == FindMethods

SpecFind == FindInit /\ [][FindNext]_vars

\* an entry meets every criterion that is given: name and module without
\* regard to case, the rest exactly
Meets(crit, value) ==
    IF crit.regex THEN search(crit.v, value) ELSE Lower(crit.v) = Lower(value)

Satisfies(mi, query) ==
    /\ "name" \in DOMAIN query => Meets(query.name, mi.method.name)
    /\ "module" \in DOMAIN query => Meets(query.module, mi.module)
    /\ "is_export" \in DOMAIN query => mi.method.is_export = query.is_export
    /\ "isExport" \in DOMAIN query => mi.method.is_export = query.isExport
    /\ "context" \in DOMAIN query => mi.method.context = query.context
    /\ "isproc" \in DOMAIN query => mi.method.isproc = query.isproc

\* how many positions of the method list hold entry e and satisfy the query
NumSatisfying(c, e, query) ==
    Cardinality({ i \in 1..Len(c.methods) :
                     c.methods[i] = e /\ Satisfies(e, query) })

\* C20: whatever the cache and the combination of criteria, find_methods
\* returns each entry that satisfies all the given criteria exactly once, and
\* no entry that fails one.
C20_FindMethodsExact ==
    rw.op = "find_methods" =>
        \A e \in SetOf(cache.methods) \cup SetOf(rw.result) :
            Count(rw.result, e) = NumSatisfying(cache, e, rw.query)

\* the same for the entries whose module is not empty
C20_ExactForNamedModules ==
    rw.op = "find_methods" =>
        \A e \in SetOf(cache.methods) \cup SetOf(rw.result) :
            (e.module # "" \/ "module" \notin DOMAIN rw.query) =>
                Count(rw.result, e) = NumSatisfying(cache, e, rw.query)

-----------------------------------------------------------------------------
(* remove_file_data one statement at a time, with a query made by another  *)
(* thread.  BSLCache takes no lock, so the interpreter may switch to the    *)
(* querying thread between any two statements of remove_file_data and of    *)
(* _rebuild_indices; the query is taken here as running between two of them.*)

\* the caches the removal starts from: methods and calls put in by a
\* sequential caller
CallLists == UNION { [1..n -> CacheCallInputs] : n \in 0..MaxBatchLen }

RemoveCaches ==
    { add_calls_batch(add_methods_batch(BSLCache, es), ks) :
        es \in { x \in EntryLists : Len(x) < MaxItems }, ks \in CallLists }

\* the queries of the other thread
RemoveQueries ==
    { Query(Given(Exact("Calc")), NotGiven, NotGiven, NotGiven, NotGiven, NotGiven),
      Query(NotGiven, Given(Exact("Mod")), NotGiven, NotGiven, NotGiven, NotGiven),
      Query(NotGiven, NotGiven, Given(TRUE), NotGiven, NotGiven, NotGiven),
      Query(NotGiven, NotGiven, NotGiven, NotGiven, NotGiven, Given(TRUE)) }

RemoveInit ==
    /\ NoIndexer
    /\ cache \in RemoveCaches
    /\ last = [op |-> "init", file |-> "", pre |-> BSLCache, arg |-> <<>>]
    /\ fs = [f \in Files |-> NoFile]
    /\ docsyms = EmptyDict
    /\ rawsyms = EmptyDict
    /\ rw = [pc |-> "idle", file |-> "", idxs |-> <<>>, i |-> 0, keys |-> {},
             calls_to_remove |-> {}, pre |-> cache]

RemoveFrame == UNCHANGED <<last, fs, docsyms, rawsyms, idxOnly>>

\* remove_file_data is called; lines 305-308 collect the positions
RmCollect ==
    \E f \in Files :
        /\ rw.pc = "idle"
        /\ rw' = [rw EXCEPT !.pc = "pop", !.file = f, !.pre = cache,
                     !.idxs = indices_to_remove(cache.methods, f,
                                                Len(cache.methods) - 1)]
        /\ UNCHANGED cache
        /\ RemoveFrame

\* line 312: self.methods.pop(idx)
RmPop ==
    /\ rw.pc = "pop"
    /\ rw.idxs # <<>>
    /\ cache' = [cache EXCEPT !.methods = PopAt(@, Head(rw.idxs))]
    /\ rw' = [rw EXCEPT !.idxs = Tail(@)]
    /\ RemoveFrame

\* line 344: self._method_name_index.clear()
RmClearName ==
    /\ rw.pc = "pop"
    /\ rw.idxs = <<>>
    /\ cache' = [cache EXCEPT !.name_index = EmptyDict]
    /\ rw' = [rw EXCEPT !.pc = "clear_module"]
    /\ RemoveFrame

\* line 345: self._method_module_index.clear()
RmClearModule ==
    /\ rw.pc = "clear_module"
    /\ cache' = [cache EXCEPT !.module_index = EmptyDict]
    /\ rw' = [rw EXCEPT !.pc = "clear_export"]
    /\ RemoveFrame

\* line 346: self._method_export_index.clear()
RmClearExport ==
    /\ rw.pc = "clear_export"
    /\ cache' = [cache EXCEPT !.export_index = <<>>]
    /\ rw' = [rw EXCEPT !.pc = "index", !.i = 0]
    /\ RemoveFrame

\* lines 348-366: one round of the loop of _rebuild_indices
RmIndex ==
    /\ rw.pc = "index"
    /\ rw.i < Len(cache.methods)
    /\ cache' = IndexEntry(cache, rw.i)
    /\ rw' = [rw EXCEPT !.i = @ + 1]
    /\ RemoveFrame

\* line 318: self.module_vars.pop(filename, None), once the rebuild is over
RmVars ==
    /\ rw.pc = "index"
    /\ rw.i >= Len(cache.methods)
    /\ cache' = [cache EXCEPT !.module_vars = Drop(@, rw.file)]
    /\ rw' = [rw EXCEPT !.pc = "calls", !.keys = DOMAIN cache.calls,
                        !.calls_to_remove = {}]
    /\ RemoveFrame

\* lines 323-331: one round of the loop over self.calls.items()
RmFilter ==
    \E call_name \in rw.keys :
        /\ rw.pc = "calls"
        /\ LET filtered_calls ==
                   SelectSeq(cache.calls[call_name],
                             LAMBDA ci : ci.filename # rw.file)
           IN IF filtered_calls = <<>>
              THEN /\ rw' = [rw EXCEPT !.keys = @ \ {call_name},
                                       !.calls_to_remove = @ \cup {call_name}]
                   /\ UNCHANGED cache
              ELSE /\ rw' = [rw EXCEPT !.keys = @ \ {call_name}]
                   /\ cache' = [cache EXCEPT !.calls[call_name] = filtered_calls]
        /\ RemoveFrame

\* lines 334-335: self.calls.pop(call_name, None)
RmPopKey ==
    \E call_name \in rw.calls_to_remove :
        /\ rw.pc = "calls"
        /\ rw.keys = {}
        /\ cache' = [cache EXCEPT !.calls = Drop(@, call_name)]
        /\ rw' = [rw EXCEPT !.calls_to_remove = @ \ {call_name}]
        /\ RemoveFrame

\* line 338: the module records are filtered, and the call returns
RmModules ==
    /\ rw.pc = "calls"
    /\ rw.keys = {}
    /\ rw.calls_to_remove = {}
    /\ cache' = [cache EXCEPT !.modules =
                    SelectSeq(@, LAMBDA m : m.filename # rw.file)]
    /\ rw' = [rw EXCEPT !.pc = "done"]
    /\ RemoveFrame

\* the other thread's find_methods call
QueryMethods ==
    \E q \in RemoveQueries :
        /\ last.op = "init"
        /\ last' = [op |-> "find_methods", file |-> rw.file, pre |-> rw.pre,
                    arg |-> [query |-> q, result |-> find_methods(cache, q),
                             pc |-> rw.pc]]
        /\ UNCHANGED <<cache, rw, fs, docsyms, rawsyms, idxOnly>>

\* the other thread's find_calls call
QueryCalls ==
    \E call_name \in {"Run", "Calc"} :
        /\ last.op = "init"
        /\ last' = [op |-> "find_calls", file |-> rw.file, pre |-> rw.pre,
                    arg |-> [query |-> call_name,
                             result |-> find_calls(cache, call_name),
                             pc |-> rw.pc]]
        /\ UNCHANGED <<cache, rw, fs, docsyms, rawsyms, idxOnly>>

RemoveNext ==
    \/ RmCollect
    \/ RmPop
    \/ RmClearName
    \/ RmClearModule
    \/ RmClearExport
    \/ RmIndex
    \/ RmVars
    \/ RmFilter
    \/ RmPopKey
    \/ RmModules
    \/ QueryMethods
    \/ QueryCalls

SpecRemove == RemoveInit /\ [][RemoveNext]_vars

\* the statements of a removal, run to the end, give what remove_file_data
\* gives as one operation
RemoveStepsAgree ==
    rw.pc = "done" => cache = remove_file_data(rw.pre, rw.file)

\* the results a query may give: that on the cache before the removal, and
\* that on the cache after it
AtomicResults(q) ==
    LET after == remove_file_data(last.pre, last.file)
    IN IF last.op = "find_methods"
       THEN { find_methods(last.pre, q), find_methods(after, q) }
       ELSE { find_calls(last.pre, q), find_calls(after, q) }

\* C16: a find_methods or find_calls call made while remove_file_data(f)
\* runs never sees partly removed data: its result is the result on the cache
\* as it was before the removal or as it is after it.
C16_QueryAtomic ==
    last.op \in {"find_methods", "find_calls"} =>
        last.arg.result \in AtomicResults(last.arg.query)

\* the same for find_calls alone
C16_FindCallsAtomic ==
    last.op = "find_calls" => last.arg.result \in AtomicResults(last.arg.query)

-----------------------------------------------------------------------------
(* Claims on the queries and the statistics *)

\* the query with the export flag moved from the key isExport to is_export
Respelled(query) ==
    [k \in (DOMAIN query \ {"isExport"}) \cup {"is_export"} |->
        IF k = "is_export" THEN query.isExport ELSE query[k]]

\* C21: a query that gives the export flag under the key isExport returns
\* what the same query gives with the flag under the key is_export, whatever
\* the cache, the flag and the other criteria.
C21_SpellingsAgree ==
    (rw.op = "find_methods" /\ "isExport" \in DOMAIN rw.query) =>
        rw.result = find_methods(cache, Respelled(rw.query))

\* a query under the alternate spelling, combined with a name criterion, that
\* returned some exported entry and left another entry out
C21_Witness ==
    /\ rw.op = "find_methods"
    /\ "isExport" \in DOMAIN rw.query
    /\ rw.query.isExport
    /\ "name" \in DOMAIN rw.query
    /\ rw.result # <<>>
    /\ Len(rw.result) < Len(cache.methods)

\* the record add_call is to store for the input <<call, file, method, module>>
CallRecordOf(k) ==
    [filename |-> k[2], call |-> k[1].call, line |-> k[1].line,
     character |-> k[1].character, method_name |-> k[3], module |-> k[4]]

\* how many call inputs, inserted and not removed since, have the callee
\* name and give the record r
NumLive(name, r) ==
    Cardinality({ p \in UNION { { <<f, i>> : i \in 1..Len(hist[f]) } : f \in Files } :
                     /\ hist[p[1]][p[2]][1].call = name
                     /\ CallRecordOf(hist[p[1]][p[2]]) = r })

\* callee names asked for: the two that are inserted, one of them in another
\* case, and one that is never inserted
CalleeNames == {"Run", "Calc", "run", "Other"}

\* C22: in every reachable cache, find_calls(name) returns exactly the
\* records of the calls added under that very name whose file was not removed
\* and that were not cleared since, each with the file, line, character,
\* method and module given at insertion, and nothing when there is none.
C22_FindCallsExact ==
    \A name \in CalleeNames :
        \A r \in SetOf(find_calls(cache, name))
                   \cup { CallRecordOf(k) : k \in CacheCallInputs } :
            Count(find_calls(cache, name), r) = NumLive(name, r)

\* a removal took one file's record out of a bucket that held two files'
\* records
C22_Witness ==
    /\ last.op = "remove_file_data"
    /\ Len(find_calls(last.pre, "Run")) = 2
    /\ Len(find_calls(cache, "Run")) = 1
    /\ find_calls(cache, "run") = <<>>

-----------------------------------------------------------------------------
(* What a caller can do with a query result.  find_methods returns          *)
(* self.methods.copy() or a fresh list, find_calls returns a copy of the    *)
(* bucket: the list is new, its elements are the cache's own BSLMethodInfo  *)
(* and BSLCallInfo objects (mutable dataclasses).  A returned element is    *)
(* named here by the place of that object in the cache.                     *)

CopyQueries ==
    { Query(NotGiven, NotGiven, NotGiven, NotGiven, NotGiven, NotGiven),
      Query(Given(Exact("Calc")), NotGiven, NotGiven, NotGiven, NotGiven, NotGiven),
      Query(NotGiven, NotGiven, Given(TRUE), NotGiven, NotGiven, NotGiven) }

CopyInit ==
    /\ NoIndexer
    /\ cache \in RemoveCaches
    /\ last = [op |-> "init", file |-> "", pre |-> BSLCache, arg |-> <<>>]
    /\ fs = [f \in Files |-> NoFile]
    /\ docsyms = EmptyDict
    /\ rawsyms = EmptyDict
    /\ rw = [op |-> "none", query |-> EmptyDict, refs |-> <<>>, first |-> <<>>,
             changed |-> "nothing"]

CopyFrame == UNCHANGED <<last, fs, docsyms, rawsyms, idxOnly>>

\* find_methods: the returned list holds the objects at the kept positions
CopyFindMethods ==
    \E q \in CopyQueries :
        /\ rw.op = "none"
        /\ rw' = [op |-> "find_methods", query |-> q,
                  refs |-> IF DOMAIN q = {}
                           THEN [i \in 1..Len(cache.methods) |-> i - 1]
                           ELSE Ascending(kept_indices(cache, q)),
                  first |-> find_methods(cache, q), changed |-> "nothing"]
        /\ UNCHANGED cache
        /\ CopyFrame

\* find_calls: the returned list holds the objects of the bucket
CopyFindCalls ==
    \E call_name \in {"Run", "Calc"} :
        /\ rw.op = "none"
        /\ rw' = [op |-> "find_calls", query |-> call_name,
                  refs |-> [i \in 1..Len(find_calls(cache, call_name)) |-> i - 1],
                  first |-> find_calls(cache, call_name), changed |-> "nothing"]
        /\ UNCHANGED cache
        /\ CopyFrame

\* the caller removes an element from the returned list, or appends one of
\* its elements again: the list is the caller's own
ChangeList ==
    /\ rw.op # "none"
    /\ rw.changed = "nothing"
    /\ rw.refs # <<>>
    /\ \/ rw' = [rw EXCEPT !.refs = Tail(@), !.changed = "list"]
       \/ rw' = [rw EXCEPT !.refs = Append(@, Head(@)), !.changed = "list"]
    /\ UNCHANGED cache
    /\ CopyFrame

\* the caller assigns to an attribute of a returned element: the element is
\* the object the cache holds
ChangeEntry ==
    \E i \in 1..Len(rw.refs) :
        /\ rw.op # "none"
        /\ rw.changed = "nothing"
        /\ cache' = IF rw.op = "find_methods"
                    THEN [cache EXCEPT !.methods[rw.refs[i] + 1].module = "Changed"]
                    ELSE [cache EXCEPT
                            !.calls[rw.query][rw.refs[i] + 1].method_name = "Changed"]
        /\ rw' = [rw EXCEPT !.changed = "entry"]
        /\ CopyFrame

CopyNext ==
    \/ CopyFindMethods
    \/ CopyFindCalls
    \/ ChangeList
    \/ ChangeEntry

SpecCopy == CopyInit /\ [][CopyNext]_vars

\* the same query made again now
QueryAgain ==
    IF rw.op = "find_methods" THEN find_methods(cache, rw.query)
    ELSE find_calls(cache, rw.query)

\* C23: whatever the caller does with a result of find_methods or find_calls
\* (removing or adding elements, changing a returned entry), the same query
\* made again returns what it returned the first time.
C23_ResultsAreCopies ==
    rw.op \in {"find_methods", "find_calls"} => QueryAgain = rw.first

\* the same for changes to the returned list alone
C23_ListIsCopied ==
    (rw.op \in {"find_methods", "find_calls"} /\ rw.changed # "entry") =>
        QueryAgain = rw.first

\* the places <<key, i>> of the elements of the lists a dict holds
Places(d) == UNION { { <<k, i>> : i \in 1..Len(d[k]) } : k \in DOMAIN d }

\* C24: in every reachable cache get_stats reports the length of the method
\* list, the number of entries whose export flag is set, the number of
\* module variables of all files, the number of call records, the number of
\* callee names that have a call record (no bucket is empty), and the number
\* of module records.
C24_StatsAreCounts ==
    LET st == get_stats(cache)
    IN /\ st.methods = Len(cache.methods)
       /\ st.exported_methods =
             Cardinality({ i \in 1..Len(cache.methods) :
                              cache.methods[i].method.is_export })
       /\ st.module_vars = Cardinality(Places(cache.module_vars))
       /\ st.calls = Cardinality(Places(cache.calls))
       /\ st.unique_calls =
             Cardinality({ cache.calls[p[1]][p[2]].call : p \in Places(cache.calls) })
       /\ \A k \in DOMAIN cache.calls : cache.calls[k] # <<>>
       /\ st.modules = Len(cache.modules)

\* a removal emptied one of two buckets, and an exported method is held
C24_Witness ==
    /\ last.op = "remove_file_data"
    /\ get_stats(last.pre).unique_calls = 2
    /\ get_stats(cache).unique_calls = 1
    /\ get_stats(cache).exported_methods = 1

-----------------------------------------------------------------------------
(* The selection of a full sync pass: the enumeration and                  *)
(* _find_files_to_index, in a state an earlier pass left (the files of      *)
(* prior have a projection of content SrcA), with the files changing        *)
(* meanwhile.                                                               *)

SelectInit ==
    /\ BatchInit
    /\ \A f \in Files : fs[f] \in {NoFile, SrcA}

SelectNext ==
    \/ SyncStart
    \/ SyncFind
    \/ Edit

SpecSelect == SelectInit /\ [][SelectNext]_vars

\* the step in which _find_files_to_index runs and the selected files are
\* submitted: srv.all_files are the candidates, and the files of the futures
\* after the step are the ones that will be parsed
Selecting == srv.pc = "enumerated" /\ srv'.pc # "enumerated"

Submitted == { tasks'[t].file : t \in DOMAIN tasks' }

\* C25: in a full sync pass with hash prefiltering on, a candidate whose
\* content hash equals the hash stored for its path in the projection is not
\* selected and gets no parse, and every candidate whose hash differs from
\* the stored one, or whose path has no projection entry, is selected.
C25_HashPrefilter ==
    [][Selecting =>
          \A f \in SetOf(srv.all_files) :
              LET file_hash == md5(fs[f])
              IN fs[f] # NoFile =>
                    IF f \in DOMAIN docsyms /\ docsyms[f].hash = file_hash
                    THEN f \notin Submitted
                    ELSE f \in Submitted]_vars

\* right after the selection: one candidate is unchanged and was skipped, the
\* other was changed since its projection was written and is to be parsed
C25_Witness ==
    /\ enable_hash_prefiltering
    /\ srv.kind = "sync" /\ srv.pc = "indexing"
    /\ Len(srv.all_files) = 2
    /\ Len(tasks) = 1 /\ tasks[1].pc = "start"
    /\ \A f \in Files :
          /\ f \in DOMAIN docsyms
          /\ fs[f] # NoFile
          /\ (f = tasks[1].file) <=> (docsyms[f].hash # md5(fs[f]))

\* C26: a candidate whose hash cannot be computed (the file can no longer be
\* read when it is hashed) is put among the files to index, never skipped.
C26_UnhashedSelected ==
    [][Selecting =>
          \A f \in SetOf(srv.all_files) :
              compute_file_hash(fs[f]) = "" => f \in Submitted]_vars

\* right after the selection: a file that was enumerated with the content of
\* its projection, and deleted before it was hashed, is to be parsed
C26_Witness ==
    /\ srv.kind = "sync" /\ srv.pc = "indexing"
    /\ \E t \in DOMAIN tasks :
          LET f == tasks[t].file
          IN /\ tasks[t].pc = "start"
             /\ fs[f] = NoFile
             /\ f \in DOMAIN docsyms
             /\ docsyms[f].hash = md5(SrcA)
    /\ used.edits = 1

-----------------------------------------------------------------------------
(* One batch that was given a save callback which may raise *)

SaveNext ==
    \/ srv.pc = "idle" /\ IndexFilesSaving
    \/ \E t \in DOMAIN tasks : TSkip(t)
    \/ \E t \in DOMAIN tasks : TReadError(t)
    \/ \E t \in DOMAIN tasks : TParse(t)
    \/ \E t \in DOMAIN tasks : THang(t)
    \/ \E t \in DOMAIN tasks : TInsert(t)
    \/ \E t \in DOMAIN tasks : TConvert(t)
    \/ \E t \in DOMAIN tasks : TConvertError(t)
    \/ \E t \in DOMAIN tasks : Collect(t)
    \/ BatchReturn

SpecSave == BatchInit /\ [][SaveNext]_vars

\* the turn of the batch loop that handles the future t of a file not yet
\* processed
Turn(t) == t \in yielded' \ yielded /\ tasks[t].file \notin processed

\* the step in which the batch returns
Returning == srv.pc = "indexing" /\ srv'.pc = "returned"

\* C27: however the calls of the save callback end, the batch goes on: each
\* turn records the file's own outcome and leaves the cache and the
\* projection alone, the callback is called at every save point whether or
\* not an earlier call raised, it is called once more when the batch ends,
\* and the batch returns an outcome for every path.
C27_SaveFailureSwallowed ==
    [][/\ \A t \in DOMAIN tasks :
             Turn(t) =>
                LET o == outcome(tasks[t], results)
                    save_point == /\ srv.callback # "none"
                                  /\ o \in {"ok", "timeout"}
                                  /\ Cardinality(processed') % SaveEvery = 0
                IN /\ results' = Put(results, tasks[t].file, o)
                   /\ cache' = cache /\ docsyms' = docsyms
                   /\ srv'.pc = "indexing"
                   /\ Len(srv'.saves) = Len(srv.saves) + (IF save_point THEN 1 ELSE 0)
       /\ Returning =>
             /\ srv.callback # "none" => Len(srv'.saves) = Len(srv.saves) + 1
             /\ \A t \in DOMAIN tasks : tasks[t].file \in DOMAIN results'
             /\ \A f \in DOMAIN results : results'[f] = results[f]
             /\ cache' = cache /\ docsyms' = docsyms]_vars

\* a batch of two files has returned: the first call of the callback raised,
\* the callback was called again after the second file and at the end, and
\* both files have the outcome of a success
C27_Witness ==
    /\ srv.pc = "returned"
    /\ srv.callback = "given"
    /\ Len(srv.saves) = 3
    /\ srv.saves[1] = "raised"
    /\ srv.saves[3] = "raised"
    /\ \A f \in Files : f \in DOMAIN results /\ results[f] = "ok"
    /\ \E f \in Files : fs[f] # NoFile /\ HoldsData(cache, f, fs[f])

\* C28: the map indexFiles returns holds an outcome, a success or a failure,
\* for every path of the list it was given and has no other key, also when a
\* path is in the list twice.
C28_OneOutcomePerPath ==
    (srv.kind = "index" /\ srv.pc = "returned") =>
        /\ DOMAIN results = SetOf(srv.paths)
        /\ \A f \in DOMAIN results : results[f] \in {"ok", "error", "timeout"}

\* a batch with the same path twice has returned; one of its two futures
\* ended well and the other raised
C28_Witness ==
    /\ srv.kind = "index" /\ srv.pc = "returned"
    /\ Len(srv.paths) = 2
    /\ srv.paths[1] = srv.paths[2]
    /\ {tasks[1].pc, tasks[2].pc} = {"done", "failed"}
    /\ DOMAIN results = {srv.paths[1]}

-----------------------------------------------------------------------------
(* _get_module_for_path on the paths below the project root *)

\* path segments: the two names of the common modules container, a directory
\* whose name starts with one of them, a container of the table, a container
\* that is not in the table, and names of objects and files
Segments ==
    {"CommonModules", "ObshchieModuli", "CommonModulesOld", "Documents",
     "Reports", "D1", "Ext", "Module.bsl"}

Paths == UNION { [1..n -> Segments] : n \in 1..MaxSegments }

ModuleInit ==
    /\ NoIndexer
    /\ cache = BSLCache
    /\ last = [op |-> "init", file |-> "", pre |-> BSLCache, arg |-> <<>>]
    /\ fs = [f \in Files |-> NoFile]
    /\ docsyms = EmptyDict
    /\ rawsyms = EmptyDict
    /\ \E parts \in Paths : rw = [op |-> "none", parts |-> parts, result |-> <<>>]

GetModuleForPath ==
    /\ rw.op = "none"
    /\ rw' = [rw EXCEPT !.op = "get_module_for_path",
                        !.result = get_module_for_path(rw.parts)]
    /\ UNCHANGED <<cache, last, fs, docsyms, rawsyms, idxOnly>>

ModuleNext == GetModuleForPath

SpecModule == ModuleInit /\ [][ModuleNext]_vars

\* the identifier the derivation rule gives, with the containers that count
\* as the common modules container
Derived(parts, containers) ==
    LET n == Len(parts)
    IN IF n <= 3 THEN <<>>
       ELSE IF parts[n - 3] \in containers THEN <<parts[n - 2]>>
       ELSE <<(IF parts[n - 3] \in DOMAIN type_mapping
               THEN type_mapping[parts[n - 3]] ELSE parts[n - 3]),
              parts[n - 2]>>

----------------------------------------------------------------------------
(* BSLParser: where a method starts and ends.  A source text is the list of
   its lines, source.split('\n'), and a line is one of
     blank    only white space
     text     a statement with no keyword of a declaration
     anno     a context annotation alone on its line
     proc     "Процедура Run()" at the start of the line
     iproc    "  Процедура RunAll()", behind leading white space
     lproc    "процедура Run()", the keyword in lower case
     func     "Функция Calc()" at the start of the line
     endproc  "КонецПроцедуры"
     endfunc  "КонецФункции"
   and, in the texts of the specifications about annotations, calls and
   descriptions,
     annoswc  the annotation "&НаСервереБезКонтекста" alone on its line
     aproc    "&НаКлиенте Процедура Run()", the annotation on the same line
     call     the statement "Other();"
     selfcall the statement "Run();"
     kwcall   "Если (X) Тогда", a keyword before a parenthesis
     comment1 "// one"
     comment2 "// two"
   Line numbers are 0-based as in the code.                                 *)

LineKinds ==
    {"blank", "text", "anno", "proc", "iproc", "lproc", "func", "endproc",
     "endfunc"}

SourceTexts == UNION { [1..n -> LineKinds] : n \in 1..MaxLines }

LineAt(lines, n) == lines[n + 1]

\* PROC_PATTERN and FUNC_PATTERN ignore case and leading white space
PROC_PATTERN(kind) == kind \in {"proc", "iproc", "lproc", "aproc"}

FUNC_PATTERN(kind) == kind = "func"

PROC_END_PATTERN(kind) == kind = "endproc"

FUNC_END_PATTERN(kind) == kind = "endfunc"

\* len(line) - len(line.lstrip())
Indented(kind) == kind = "iproc"

\* the first line of the run of blank lines that ends before line n
RECURSIVE BlankRun(_, _)
BlankRun(lines, n) ==
    IF n > 0 /\ LineAt(lines, n - 1) = "blank"
    THEN BlankRun(lines, n - 1)
    ELSE n

\* the line of match.start() for the declaration on line n: "^\s*" takes the
\* blank lines before it, the optional annotation and the blank lines
\* before that
match_start(lines, n) ==
    LET k == BlankRun(lines, n)
    IN IF /\ k > 0
          /\ LineAt(lines, k - 1) \in {"anno", "annoswc"}
          /\ LineAt(lines, n) # "aproc"
       THEN BlankRun(lines, k - 1)
       ELSE k

\* match.group(1) for the declaration of a line
MethodName(kind) ==
    CASE kind = "iproc" -> "RunAll"
      [] kind = "func"  -> "Calc"
      [] OTHER          -> "Run"

\* method_name in line: the name is a part of the line's text
NameIn(name, kind) ==
    CASE name = "Run"    -> kind \in {"proc", "iproc", "lproc", "aproc",
                                      "selfcall"}
      [] name = "RunAll" -> kind = "iproc"
      [] name = "Calc"   -> kind = "func"
      [] OTHER           -> FALSE

\* the line holds the method's name and 'Процедура' or 'Функция' as written
NamesDeclaration(name, kind) ==
    NameIn(name, kind) /\ kind \in {"proc", "iproc", "aproc", "func"}

\* the first of the three lines from the start of the match that names the
\* declaration, and the start of the match when none does
start_line_of(lines, start, name) ==
    LET found == { offset \in 0..2 :
                     /\ start + offset < Len(lines)
                     /\ NamesDeclaration(name,
                                         LineAt(lines, start + offset)) }
    IN IF found = {} THEN start
       ELSE start + (CHOOSE o \in found : \A x \in found : o <= x)

RECURSIVE ScanForEnd(_, _, _, _)
ScanForEnd(lines, i, depth, is_proc) ==
    IF i >= Len(lines) THEN <<>>
    ELSE LET kind == LineAt(lines, i)
         IN IF PROC_PATTERN(kind) \/ FUNC_PATTERN(kind)
            THEN ScanForEnd(lines, i + 1,
                            IF Indented(kind) THEN depth ELSE depth + 1,
                            is_proc)
            ELSE IF (IF is_proc THEN PROC_END_PATTERN(kind)
                                ELSE FUNC_END_PATTERN(kind))
            THEN (IF depth = 1 THEN <<i>>
                  ELSE ScanForEnd(lines, i + 1, depth - 1, is_proc))
            ELSE ScanForEnd(lines, i + 1, depth, is_proc)

\* a variant that looks for the end from the top of the text
find_method_end_FromTop(lines, start_line, is_proc) ==
    ScanForEnd(lines, 0, 1, is_proc)

\* <<i>> for the line of the closing keyword, <<>> for None
find_method_end(lines, start_line, is_proc) ==
    ScanForEnd(lines, start_line + 1, 1, is_proc)

\* CONTEXT_PATTERN.search(line).group(1), normalised: the first
\* alternative of the pattern that matches at the "&" (the tags
\* transliterated)
extract_context(kind) ==
    CASE kind = "anno"    -> "NaServere"
      [] kind = "annoswc" -> "NaServere"
      [] kind = "aproc"   -> "NaKliente"
      [] OTHER            -> ""

\* the comment of a line that starts with "//"
CommentOf(kind) ==
    CASE kind = "comment1" -> <<"one">>
      [] kind = "comment2" -> <<"two">>
      [] OTHER             -> <<>>

\* the loop over range(max(0, line_num - 20), line_num): description_lines
\* when the loop ends
RECURSIVE DescriptionLines(_, _, _, _)
DescriptionLines(lines, i, line_num, description_lines) ==
    IF i >= line_num THEN description_lines
    ELSE LET kind == LineAt(lines, i)
         IN IF description_lines = <<>> /\ kind = "blank"
            THEN DescriptionLines(lines, i + 1, line_num, description_lines)
            ELSE IF CommentOf(kind) # <<>>
            THEN DescriptionLines(lines, i + 1, line_num,
                                  description_lines \o CommentOf(kind))
            ELSE IF kind # "blank" THEN description_lines
            ELSE DescriptionLines(lines, i + 1, line_num, description_lines)

Reversed(seq) == [i \in 1..Len(seq) |-> seq[Len(seq) + 1 - i]]

\* the description as the list of its lines
extract_description_before(lines, line_num) ==
    Reversed(DescriptionLines(lines,
                              IF line_num > LookBack THEN line_num - LookBack
                              ELSE 0,
                              line_num, <<>>))

\* <<method>>, or <<>> when the method has no end; match is the line of the
\* declaration that the pattern matched
parse_method_from_match(lines, n, is_proc) ==
    LET method_name == MethodName(LineAt(lines, n))
        start_line == start_line_of(lines, match_start(lines, n), method_name)
        end_line == find_method_end(lines, start_line, is_proc)
    IN IF end_line = <<>> THEN <<>>
       ELSE << [name |-> method_name, line |-> start_line,
                endline |-> end_line[1], isproc |-> is_proc,
                context |-> extract_context(LineAt(lines, start_line)),
                description |->
                    extract_description_before(lines, start_line),
                calls_position |-> <<>>, match |-> n] >>

RECURSIVE MatchesFrom(_, _, _)
MatchesFrom(lines, n, is_proc) ==
    IF n >= Len(lines) THEN <<>>
    ELSE (IF (IF is_proc THEN PROC_PATTERN(LineAt(lines, n))
                         ELSE FUNC_PATTERN(LineAt(lines, n)))
          THEN parse_method_from_match(lines, n, is_proc)
          ELSE <<>>)
         \o MatchesFrom(lines, n + 1, is_proc)

\* methods.sort(key=lambda m: m.line), which keeps equal keys in order
RECURSIVE sort_by_line(_)
sort_by_line(methods) ==
    IF methods = <<>> THEN <<>>
    ELSE LET rest == sort_by_line(SubSeq(methods, 1, Len(methods) - 1))
             m == methods[Len(methods)]
             k == Cardinality({ i \in 1..Len(rest) : rest[i].line <= m.line })
         IN SubSeq(rest, 1, k) \o <<m>> \o SubSeq(rest, k + 1, Len(rest))

\* a variant that leaves the two passes unsorted
parse_methods_Unsorted(lines) ==
    MatchesFrom(lines, 0, TRUE) \o MatchesFrom(lines, 0, FALSE)

parse_methods(lines) ==
    sort_by_line(MatchesFrom(lines, 0, TRUE) \o MatchesFrom(lines, 0, FALSE))

\* KEYWORDS, of which the texts of the model use these (transliterated)
KEYWORDS == {"esli", "poka", "procedura", "funkciya", "vozvrat"}

\* CALL_PATTERN.finditer(line): the identifiers before a "(" with their
\* columns
CallMatches(kind) ==
    CASE kind \in {"proc", "lproc"} -> <<[call |-> "Run", character |-> 10]>>
      [] kind = "iproc"    -> <<[call |-> "RunAll", character |-> 12]>>
      [] kind = "aproc"    -> <<[call |-> "Run", character |-> 21]>>
      [] kind = "func"     -> <<[call |-> "Calc", character |-> 8]>>
      [] kind = "call"     -> <<[call |-> "Other", character |-> 0]>>
      [] kind = "selfcall" -> <<[call |-> "Run", character |-> 0]>>
      [] kind = "kwcall"   -> <<[call |-> "Esli", character |-> 0]>>
      [] OTHER             -> <<>>

\* the calls of the lines from..to that are no keyword and not the name
\* skip (skip is "" for the module level, where no name is left out)
RECURSIVE CallsOfLines(_, _, _, _, _)
CallsOfLines(lines, from, to, skip, outside) ==
    IF from > to THEN <<>>
    ELSE LET found == CallMatches(LineAt(lines, from))
         IN (IF /\ found # <<>>
                /\ from \notin outside
                /\ Lower(found[1].call) \notin KEYWORDS
                /\ found[1].call # skip
             THEN <<CallPos(found[1].call, from, found[1].character)>>
             ELSE <<>>)
            \o CallsOfLines(lines, from + 1, to, skip, outside)

\* a variant that keeps the calls of a method to itself
parse_method_calls_KeepSelf(lines, method) ==
    CallsOfLines(lines, method.line, method.endline, "", {})

parse_method_calls(lines, method) ==
    CallsOfLines(lines, method.line, method.endline, method.name, {})

parse_global_calls(lines, methods) ==
    LET method_ranges == UNION { methods[i].line .. methods[i].endline :
                                   i \in 1..Len(methods) }
    IN CallsOfLines(lines, 0, Len(lines) - 1, "", method_ranges)

\* BSLParser.parse: the methods with their calls, and the calls of the
\* module level
parse_source(lines) ==
    LET methods == parse_methods(lines)
    IN [methods |-> [i \in 1..Len(methods) |->
                        [methods[i] EXCEPT !.calls_position =
                            parse_method_calls(lines, methods[i])]],
        global_calls |-> parse_global_calls(lines, methods)]

ParseInit ==
    /\ NoIndexer
    /\ cache = BSLCache
    /\ last = [op |-> "init", file |-> "", pre |-> BSLCache, arg |-> <<>>]
    /\ fs = [f \in Files |-> NoFile]
    /\ docsyms = EmptyDict
    /\ rawsyms = EmptyDict
    /\ \E lines \in SourceTexts : rw = [op |-> "none", lines |-> lines,
                                    methods |-> <<>>, global_calls |-> <<>>]

ParseSource ==
    /\ rw.op = "none"
    /\ rw' = [rw EXCEPT !.op = "parse",
                        !.methods = parse_source(rw.lines).methods,
                        !.global_calls = parse_source(rw.lines).global_calls]
    /\ UNCHANGED <<cache, last, fs, docsyms, rawsyms, idxOnly>>

ParseNext == ParseSource

SpecParse == ParseInit /\ [][ParseNext]_vars

\* C30: every method that parse returns starts on a line not after the line
\* it ends on, and both lines are 0-based indices of lines of the source
\* text.
C30_LinesInRange ==
    rw.op = "parse" =>
        \A i \in 1..Len(rw.methods) :
            /\ 0 <= rw.methods[i].line
            /\ rw.methods[i].line <= rw.methods[i].endline
            /\ rw.methods[i].endline < Len(rw.lines)

\* a text that starts with a closing keyword gave a method that begins after
\* the first line and ends on the last line
C30_Witness ==
    /\ rw.op = "parse"
    /\ LineAt(rw.lines, 0) = "endproc"
    /\ \E i \in 1..Len(rw.methods) :
          /\ rw.methods[i].line > 0
          /\ rw.methods[i].endline = Len(rw.lines) - 1

\* C31: the methods of a parse result are in the order of their start lines:
\* a method that comes before another in the list starts on the same line or
\* on an earlier one, whichever of the two passes found them.
C31_SortedByLine ==
    rw.op = "parse" =>
        \A i, j \in 1..Len(rw.methods) :
            i < j => rw.methods[i].line <= rw.methods[j].line

\* a function that the second pass found stands before a procedure that the
\* first pass found
C31_Witness ==
    /\ rw.op = "parse"
    /\ \E i, j \in 1..Len(rw.methods) :
          /\ i < j
          /\ ~rw.methods[i].isproc
          /\ rw.methods[j].isproc
          /\ rw.methods[i].line < rw.methods[j].line

----------------------------------------------------------------------------
(* What the parser is to return, stated on the text alone *)

\* the lines that open a method
Openings(lines) ==
    { n \in 0..(Len(lines) - 1) :
        PROC_PATTERN(LineAt(lines, n)) \/ FUNC_PATTERN(LineAt(lines, n)) }

\* the closing line of the method opened before line i, when opening and
\* closing keywords are paired by nesting: every opening keyword after the
\* method's own adds a level, a closing keyword of the method's kind ends a
\* level; <<>> when the text ends first
RECURSIVE NestedEnd(_, _, _, _)
NestedEnd(lines, i, depth, is_proc) ==
    IF i >= Len(lines) THEN <<>>
    ELSE LET kind == LineAt(lines, i)
         IN IF PROC_PATTERN(kind) \/ FUNC_PATTERN(kind)
            THEN NestedEnd(lines, i + 1, depth + 1, is_proc)
            ELSE IF (IF is_proc THEN PROC_END_PATTERN(kind)
                                ELSE FUNC_END_PATTERN(kind))
            THEN (IF depth = 1 THEN <<i>>
                  ELSE NestedEnd(lines, i + 1, depth - 1, is_proc))
            ELSE NestedEnd(lines, i + 1, depth, is_proc)

ClosingLine(lines, n) ==
    NestedEnd(lines, n + 1, 1, PROC_PATTERN(LineAt(lines, n)))

\* the returned methods of the opening on line n
MethodsOf(methods, n) == { i \in 1..Len(methods) : methods[i].match = n }

\* C32: a method whose body has no closing line is not in the parse result,
\* and every method of the text that has its opening line and its matching
\* closing line is in it.
C32_UnterminatedDropped ==
    rw.op = "parse" =>
        \A n \in Openings(rw.lines) :
            IF ClosingLine(rw.lines, n) = <<>>
            THEN MethodsOf(rw.methods, n) = {}
            ELSE MethodsOf(rw.methods, n) # {}

\* C33: the end line of every returned method is the line of the closing
\* keyword that matches the method's opening keyword when the opening and
\* closing keywords of the text are paired by nesting.
C33_EndIsMatchingClose ==
    rw.op = "parse" =>
        \A i \in 1..Len(rw.methods) :
            ClosingLine(rw.lines, rw.methods[i].match)
                = <<rw.methods[i].endline>>

----------------------------------------------------------------------------
(* The start line and the context of a method: texts of blank lines,
   annotations and procedures, one line longer than the other texts so that
   three blank lines fit before a method with its closing line *)

StartKinds ==
    {"blank", "anno", "annoswc", "proc", "iproc", "aproc", "endproc"}

StartTexts == UNION { [1..n -> StartKinds] : n \in 1..(MaxLines + 1) }

StartInit ==
    /\ NoIndexer
    /\ cache = BSLCache
    /\ last = [op |-> "init", file |-> "", pre |-> BSLCache, arg |-> <<>>]
    /\ fs = [f \in Files |-> NoFile]
    /\ docsyms = EmptyDict
    /\ rawsyms = EmptyDict
    /\ \E lines \in StartTexts : rw = [op |-> "none", lines |-> lines,
                                   methods |-> <<>>, global_calls |-> <<>>]

StartNext == ParseSource

SpecStart == StartInit /\ [][StartNext]_vars

\* C34: the start line of every returned method is the line that holds the
\* method's opening keyword and its name, however many blank lines, or an
\* annotation line, lie between the start of the match and the declaration.
C34_StartIsDeclaration ==
    rw.op = "parse" =>
        \A i \in 1..Len(rw.methods) : rw.methods[i].line = rw.methods[i].match

\* the annotation of the opening statement that declares on line n: the one
\* on the declaration's line, else the one on the line before it (blank
\* lines apart), else none (the tags transliterated)
AnnotationOf(lines, n) ==
    LET k == BlankRun(lines, n)
        before_it == IF k > 0 THEN LineAt(lines, k - 1) ELSE "blank"
    IN CASE LineAt(lines, n) = "aproc" -> "NaKliente"
         [] before_it = "anno"         -> "NaServere"
         [] before_it = "annoswc"      -> "NaServereBezKonteksta"
         [] OTHER                      -> ""

\* C38: the context tag of every returned method is the annotation that
\* stands before the opening keyword in the opening statement, on the same
\* line or on the line before, and the tag is empty only when the statement
\* has no annotation.
C38_ContextIsAnnotation ==
    rw.op = "parse" =>
        \A i \in 1..Len(rw.methods) :
            rw.methods[i].context = AnnotationOf(rw.lines, rw.methods[i].match)

----------------------------------------------------------------------------
(* The calls of a text: texts of procedures and statements with a call *)

CallKinds == {"proc", "iproc", "endproc", "call", "selfcall", "kwcall"}

CallTexts == UNION { [1..n -> CallKinds] : n \in 1..MaxLines }

CallsInit ==
    /\ NoIndexer
    /\ cache = BSLCache
    /\ last = [op |-> "init", file |-> "", pre |-> BSLCache, arg |-> <<>>]
    /\ fs = [f \in Files |-> NoFile]
    /\ docsyms = EmptyDict
    /\ rawsyms = EmptyDict
    /\ \E lines \in CallTexts : rw = [op |-> "none", lines |-> lines,
                                   methods |-> <<>>, global_calls |-> <<>>]

CallsNext == ParseSource

SpecCalls == CallsInit /\ [][CallsNext]_vars

\* how often a list holds a call position
TimesIn(calls, pos) == Cardinality({ i \in 1..Len(calls) : calls[i] = pos })

\* the methods whose range of lines holds line n
Enclosing(methods, n) ==
    { i \in 1..Len(methods) : methods[i].line <= n /\ n <= methods[i].endline }

\* the lines with an identifier before a parenthesis that is no keyword
CallSites(lines) ==
    { n \in 0..(Len(lines) - 1) :
        /\ CallMatches(LineAt(lines, n)) # <<>>
        /\ Lower(CallMatches(LineAt(lines, n))[1].call) \notin KEYWORDS }

SiteOf(lines, n) ==
    CallPos(CallMatches(LineAt(lines, n))[1].call, n,
            CallMatches(LineAt(lines, n))[1].character)

\* the methods whose call list holds the call of line n
Holders(lines, methods, n) ==
    { i \in 1..Len(methods) :
        TimesIn(methods[i].calls_position, SiteOf(lines, n)) > 0 }

\* C35: a call of the text that is no keyword and no call of a method to
\* itself is recorded exactly once: in the list of the module level when
\* its line is outside the range of every returned method, otherwise in the
\* list of exactly one method, whose range holds the line; never in two
\* lists.
C35_RecordedOnce ==
    rw.op = "parse" =>
        \A n \in CallSites(rw.lines) :
            LET pos == SiteOf(rw.lines, n)
                around == Enclosing(rw.methods, n)
                holders == Holders(rw.lines, rw.methods, n)
            IN IF around = {}
               THEN /\ TimesIn(rw.global_calls, pos) = 1
                    /\ holders = {}
               ELSE /\ TimesIn(rw.global_calls, pos) = 0
                    /\ holders \subseteq around
                    /\ \A i \in holders :
                          TimesIn(rw.methods[i].calls_position, pos) = 1
                    /\ (\E i \in around : rw.methods[i].name # pos.call)
                          => Cardinality(holders) = 1

\* no two returned methods have a line in common
RangesApart ==
    \A i, j \in 1..Len(rw.methods) :
        i # j => \/ rw.methods[i].endline < rw.methods[j].line
                 \/ rw.methods[j].endline < rw.methods[i].line

\* C36: no call position of a parse result, of the module level or of a
\* method, names a reserved keyword in any case of letters, and no call list
\* of a method holds a call of the method's own name.
C36_NoKeywordNoSelf ==
    rw.op = "parse" =>
        /\ \A k \in 1..Len(rw.global_calls) :
              Lower(rw.global_calls[k].call) \notin KEYWORDS
        /\ \A i \in 1..Len(rw.methods) :
              \A k \in 1..Len(rw.methods[i].calls_position) :
                 /\ Lower(rw.methods[i].calls_position[k].call) \notin KEYWORDS
                 /\ rw.methods[i].calls_position[k].call # rw.methods[i].name

\* a method with a keyword before a parenthesis in its body, whose
\* declaration line names the method itself, and with a call that was kept
C36_Witness ==
    /\ rw.op = "parse"
    /\ \E i \in 1..Len(rw.methods) :
          /\ \E n \in rw.methods[i].line .. rw.methods[i].endline :
                LineAt(rw.lines, n) = "kwcall"
          /\ rw.methods[i].line = rw.methods[i].match
          /\ rw.methods[i].calls_position # <<>>

----------------------------------------------------------------------------
(* The description of a method: texts of comments, statements and
   procedures *)

DescrKinds == {"blank", "comment1", "comment2", "text", "proc", "endproc"}

DescrTexts == UNION { [1..n -> DescrKinds] : n \in 1..MaxLines }

DescrInit ==
    /\ NoIndexer
    /\ cache = BSLCache
    /\ last = [op |-> "init", file |-> "", pre |-> BSLCache, arg |-> <<>>]
    /\ fs = [f \in Files |-> NoFile]
    /\ docsyms = EmptyDict
    /\ rawsyms = EmptyDict
    /\ \E lines \in DescrTexts : rw = [op |-> "none", lines |-> lines,
                                    methods |-> <<>>, global_calls |-> <<>>]

DescrNext == ParseSource

SpecDescr == DescrInit /\ [][DescrNext]_vars

\* the comment lines met when going up from line i to line low, blank lines
\* passed over, up to the first line that is neither a comment nor blank,
\* in the order of the text
RECURSIVE BlockAbove(_, _, _, _)
BlockAbove(lines, i, low, block) ==
    IF i < low THEN block
    ELSE LET kind == LineAt(lines, i)
         IN IF kind = "blank" THEN BlockAbove(lines, i - 1, low, block)
            ELSE IF CommentOf(kind) # <<>>
            THEN BlockAbove(lines, i - 1, low, CommentOf(kind) \o block)
            ELSE block

\* C37: the description of a method is the block of comment lines directly
\* before its declaration line (blank lines before the declaration passed
\* over, at most LookBack lines looked at, ended by the first line that is
\* neither a comment nor blank), in the order of the text from top to bottom;
\* lines above the line that ends the block add nothing.
C37_DescriptionIsBlock ==
    rw.op = "parse" =>
        \A i \in 1..Len(rw.methods) :
            LET n == rw.methods[i].match
            IN rw.methods[i].description
                 = BlockAbove(rw.lines, n - 1,
                              IF n > LookBack THEN n - LookBack ELSE 0, <<>>)

----------------------------------------------------------------------------
\* method a lies strictly inside method b
StrictlyInside(a, b) == b.line < a.line /\ a.endline < b.endline

\* C39: the ranges of lines of two methods of a parse result are apart or
\* one lies strictly inside the other; they never overlap in part and never
\* begin on the same line.
C39_RangesNested ==
    rw.op = "parse" =>
        \A i, j \in 1..Len(rw.methods) :
            i # j =>
                /\ rw.methods[i].line # rw.methods[j].line
                /\ \/ rw.methods[i].endline < rw.methods[j].line
                   \/ rw.methods[j].endline < rw.methods[i].line
                   \/ StrictlyInside(rw.methods[i], rw.methods[j])
                   \/ StrictlyInside(rw.methods[j], rw.methods[i])

----------------------------------------------------------------------------
(* Two full sync passes of a server that starts with nothing loaded, over
   files that do not change *)

ConvergeInit ==
    /\ cache = BSLCache
    /\ last = [op |-> "init", file |-> "", pre |-> BSLCache, arg |-> <<>>]
    /\ fs \in [Files -> Contents]
    /\ docsyms = EmptyDict
    /\ rawsyms = EmptyDict
    /\ NoRace
    /\ NoIndexer

ConvergeNext ==
    \/ SyncStart
    \/ SyncFind
    \/ \E t \in DOMAIN tasks : TSkip(t)
    \/ \E t \in DOMAIN tasks : TReadError(t)
    \/ \E t \in DOMAIN tasks : TParse(t)
    \/ \E t \in DOMAIN tasks : THang(t)
    \/ \E t \in DOMAIN tasks : TInsert(t)
    \/ \E t \in DOMAIN tasks : TConvert(t)
    \/ \E t \in DOMAIN tasks : TConvertError(t)
    \/ \E t \in DOMAIN tasks : Collect(t)
    \/ BatchReturn
    \/ SyncConvert
    \/ SyncReconcile

SpecConverge == ConvergeInit /\ [][ConvergeNext]_vars

\* a full sync pass has ended and reported success for every file it indexed
PassSucceeded ==
    /\ srv.pc = "ready"
    /\ srv.kind = "sync"
    /\ \A f \in DOMAIN results : results[f] = "ok"

\* C40: when a full sync pass reported success for every file and no file
\* changes, the next full sync pass selects no file for indexing.
C40_SyncConverges ==
    [][ (PassSucceeded /\ srv'.kind = "sync" /\ used'.ops = used.ops + 1)
          => find_files_to_index(srv'.all_files, fs', docsyms') = <<>> ]_vars

=============================================================================
